---- MODULE Spec2Model ----
(***************************************************************************)
(* Realization-association engine of openquake.commonlib.source:           *)
(* CompositeSourceModel.get_rlzs_assoc builds a RlzsAssoc from a composite *)
(* source model, and RlzsAssoc.combine / combine_curves / __getitem__ /    *)
(* get_col_ids read it.                                                    *)
(*                                                                         *)
(* Floating point numbers are modelled by exact rationals <<num, den>>     *)
(* with den > 0, kept in lowest terms.                                     *)
(***************************************************************************)
EXTENDS Integers, Sequences, FiniteSets, TLC

VARIABLES
    source_models,   \* CompositeSourceModel.source_models: seq of SourceModel
    gsim_lt,         \* smodel.gsim_lt of each source model (mutated by reduce)
    num_samples,     \* source_model_lt.num_samples
    pc,              \* position in get_rlzs_assoc / in the running read operation
    sm_i,            \* index of the source model the build loop is at
    idx,             \* the running realization index of get_rlzs_assoc
    rlz_obj,         \* the LtRealization objects, by creation index
    rlzs_assoc,      \* RlzsAssoc.rlzs_assoc: (trt_model_id, gsim) -> list of rlzs
    rlzs_by_smodel,  \* RlzsAssoc.rlzs_by_smodel: list of lists of rlzs
    col_ids_by_rlz,  \* RlzsAssoc.col_ids_by_rlz: dict keyed by hash(repr(rlz))
    error,           \* the exception raised, "" when none
    op,              \* the read operation in progress and its local variables
    sources,         \* the weighted items handed to the map-reduce
    concurrent_tasks,\* oqparam.concurrent_tasks, the target concurrency
    blocks,          \* the blocks the items were split in, one per task
    pending,         \* the tasks whose partial result is not yet folded
    mr_acc,          \* the accumulator of the reduction
    mr_pc,           \* position in the map-reduce
    sitecol,         \* the site collection of the tiling calculator: site ids
    tiles,           \* all_args of the tiling: (tile, position, tileno)
    tl_pending,      \* the tiles whose task has not been reduced yet
    tl_acc,          \* the accumulator of the tiling reduction
    tl_pc,           \* position in ClassicalTilingCalculator.execute
    calc_assoc,      \* identity of the object calculator.rlzs_assoc refers to
    group,           \* a TrtModel object: trt, sources, min_mag, max_mag
    ctor,            \* TrtModel.__init__: the list given, the loop's position
    call,            \* the argument of the last TrtModel.update call
    parser,          \* the loading of the source models: parse_source_model
    sp               \* the source processor: SourceFilter(Splitter).process

\* the variables of the map-reduce execution
tileVars == <<sitecol, tiles, tl_pending, tl_acc, tl_pc, calc_assoc>>

\* the variables of the loading and of the processing of the sources
loadVars == <<group, ctor, call, parser, sp>>

execVars == <<sources, concurrent_tasks, blocks, pending, mr_acc, mr_pc,
              tileVars, loadVars>>

vars == <<source_models, gsim_lt, num_samples, pc, sm_i, idx, rlz_obj,
          rlzs_assoc, rlzs_by_smodel, col_ids_by_rlz, error, op, execVars>>

(***************************************************************************)
(* Bounds of the model.                                                    *)
(***************************************************************************)
MaxBranches == 2
MaxSamples == 2
MaxNumSamples == 3
MaxResults == 2
MaxOpsBranches == 1
MaxItems == 3
MaxWeight == 2
MaxTasks == 2
MaxSites == 2

(***************************************************************************)
(* Exact rational arithmetic standing for Python floats.                   *)
(***************************************************************************)
Abs(x) == IF x < 0 THEN -x ELSE x

RECURSIVE GCD(_, _)
GCD(a, b) == IF b = 0 THEN a ELSE GCD(b, a % b)

Norm(n, d) ==
    LET s == IF d < 0 THEN -1 ELSE 1
        g == GCD(Abs(n), Abs(d))
    IN  IF n = 0 THEN <<0, 1>> ELSE <<(s * n) \div g, (s * d) \div g>>

RZero == <<0, 1>>
ROne == <<1, 1>>
RAdd(a, b) == Norm(a[1] * b[2] + b[1] * a[2], a[2] * b[2])
RSub(a, b) == Norm(a[1] * b[2] - b[1] * a[2], a[2] * b[2])
RMul(a, b) == Norm(a[1] * b[1], a[2] * b[2])
RDiv(a, b) == Norm(a[1] * b[2], a[2] * b[1])
RLess(a, b) == a[1] * b[2] < b[1] * a[2]
RAbs(a) == <<Abs(a[1]), a[2]>>

RECURSIVE RSum(_)
RSum(s) == IF s = << >> THEN RZero ELSE RAdd(Head(s), RSum(Tail(s)))

RECURSIVE Flatten(_)
Flatten(ss) == IF ss = << >> THEN << >> ELSE Head(ss) \o Flatten(Tail(ss))

SeqToSet(s) == {s[k] : k \in 1..Len(s)}

(***************************************************************************)
(* The inputs: tectonic region types, ground-motion trees, source models.  *)
(***************************************************************************)
Trts == <<"T1", "T2">>

\* The branch weights a source model may carry.
BranchWeights == {<<0, 1>>, <<2, 5>>, <<3, 5>>}

\* The ground-motion branches [gsim, weight] a tree may declare for a region type.
GsimChoices(trt) ==
    IF trt = "T1"
    THEN {<<[gsim |-> "A", weight |-> <<1, 1>>]>>,
          <<[gsim |-> "A", weight |-> <<1, 2>>],
            [gsim |-> "B", weight |-> <<1, 2>>]>>}
    ELSE {<<[gsim |-> "D", weight |-> <<1, 4>>],
            [gsim |-> "E", weight |-> <<3, 4>>]>>}

\* The region-type groups of one source model: T1 alone, or T1 and T2.
TrtLayouts == {<<"T1">>, <<"T1", "T2">>}

IndexOf(seq, x) == CHOOSE k \in 1..Len(seq) : seq[k] = x

GsimNames(branches) == [k \in 1..Len(branches) |-> branches[k].gsim]

(***************************************************************************)
(* GsimLogicTree (openquake.commonlib.logictree): a record                 *)
(*   all_trts                the declared region types, in order           *)
(*   tectonic_region_types   the effective region types (after reduce)     *)
(*   values                  region type -> its branches [gsim, weight]    *)
(***************************************************************************)
RECURSIVE Product(_)
Product(groups) ==
    IF groups = << >> THEN << << >> >>
    ELSE LET h == Head(groups)
             rest == Product(Tail(groups))
         IN  Flatten([a \in 1..Len(h) |->
                        [b \in 1..Len(rest) |-> <<h[a]>> \o rest[b]]])

RECURSIVE RProd(_)
RProd(s) == IF s = << >> THEN ROne ELSE RMul(Head(s), RProd(Tail(s)))

\* GsimLogicTree.__iter__: one realization per path through the effective
\* region types; a pruned region type contributes the placeholder "@".
IterRlzs(glt) ==
    LET groups == [k \in 1..Len(glt.all_trts) |->
                     IF glt.all_trts[k] \in glt.tectonic_region_types
                     THEN glt.values[glt.all_trts[k]]
                     ELSE <<[gsim |-> "@", weight |-> ROne]>>]
        paths == Product(groups)
    IN  [p \in 1..Len(paths) |->
           [value |-> [k \in 1..Len(paths[p]) |-> paths[p][k].gsim],
            weight |-> RProd([k \in 1..Len(paths[p]) |-> paths[p][k].weight])]]

\* GsimLogicTree.get_num_paths
get_num_paths(glt) == Len(IterRlzs(glt))

\* GsimLogicTree.reduce(trts): keep only the given region types.
reduce(glt, trts) ==
    [glt EXCEPT !.tectonic_region_types = trts,
                !.values = [t \in DOMAIN glt.values |->
                              IF t \in trts THEN glt.values[t] ELSE << >>]]

\* GsimLogicTree.get_gsim_by_trt(gsim_rlz, trt)
get_gsim_by_trt(glt, gsim_rlz, trt) == gsim_rlz.value[IndexOf(glt.all_trts, trt)]

RECURSIVE SelectSeq2(_, _)
SelectSeq2(s, keep) ==
    IF s = << >> THEN << >>
    ELSE (IF keep[1] THEN <<Head(s)>> ELSE << >>)
         \o SelectSeq2(Tail(s), Tail(keep))

\* logictree.get_effective_rlzs: the enumerated realizations, without the
\* empty one (every region type pruned).
get_effective_rlzs(glt) ==
    LET all == IterRlzs(glt)
    IN  SelectSeq2(all, [p \in 1..Len(all) |->
                           \E k \in 1..Len(all[p].value) : all[p].value[k] # "@"])

\* logictree.sample(gsim_lt, samples, rnd): `draws` are the random picks.
sample(glt, draws) == [k \in 1..Len(draws) |-> IterRlzs(glt)[draws[k]]]

(***************************************************************************)
(* SourceModel, TrtModel and CompositionInfo.                              *)
(***************************************************************************)
\* The default weight function of get_rlzs_assoc: lambda tm: tm.num_ruptures
get_weight(tm) == tm.num_ruptures

\* CompositionInfo.__init__: cols, one (trt_id, sample) per collection id,
\* in a single pass over (source model, trt model, sample index).
cols(sms) ==
    Flatten([s \in 1..Len(sms) |->
      Flatten([t \in 1..Len(sms[s].trt_models) |->
        [k \in 1..sms[s].samples |->
           [trt_id |-> sms[s].trt_models[t].id, sample |-> k - 1]]])])

\* CompositionInfo.col_ids_by_trt_id[trt_id]: the collection ids of a group,
\* in sample order (a defaultdict(list): [] for an unknown id).
col_ids_by_trt_id(sms, trt_id) ==
    LET cs == cols(sms)
        Mine(c) == cs[c + 1].trt_id = trt_id
    IN  SelectSeq([c \in 1..Len(cs) |-> c - 1], Mine)

\* LtRealization.uid
uid(rlz) == <<rlz.sm_lt_path, rlz.gsim_rlz.value>>

\* LtRealization.__repr__: what __eq__ and __hash__ are computed from.
Repr(rlz) == <<rlz.ordinal, uid(rlz), rlz.weight>>

\* LtRealization.__eq__: repr(self) == repr(other)
__eq__(a, b) == Repr(a) = Repr(b)

\* LtRealization.__hash__: hash(repr(self)); the repr stands for its hash
__hash__(a) == Repr(a)

\* RlzsAssoc.realizations: sum(self.rlzs_by_smodel, [])
realizations == Flatten(rlzs_by_smodel)

\* An assignment of the one-element list in place of list.append.
DictAppend_Replace(d, key, o) ==
    IF key \in DOMAIN d THEN [d EXCEPT ![key] = <<o>>]
    ELSE d @@ (key :> <<o>>)

\* list.append on an entry of the defaultdict(list) rlzs_assoc
DictAppend(d, key, o) ==
    IF key \in DOMAIN d THEN [d EXCEPT ![key] = Append(@, o)]
    ELSE d @@ (key :> <<o>>)

\* set.add on an entry of the defaultdict(set) col_ids_by_rlz
DictAdd(d, key, c) ==
    IF key \in DOMAIN d THEN [d EXCEPT ![key] = @ \cup {c}]
    ELSE d @@ (key :> {c})

\* A step that files the sample index, not the collection id, under the group.
ColStep_SampleAsId(st, trt_id, i) ==
    [cols |-> Append(st.cols, [trt_id |-> trt_id, sample |-> i]),
     col_ids_by_trt_id |-> DictAppend(st.col_ids_by_trt_id, trt_id, i),
     col_id |-> st.col_id + 1]

\* CompositionInfo.__init__, the body of the innermost loop (i is its idx):
\* cols.append((trt_id, idx)); col_ids_by_trt_id[trt_id].append(col_id);
\* col_id += 1
ColStep(st, trt_id, i) ==
    [cols |-> Append(st.cols, [trt_id |-> trt_id, sample |-> i]),
     col_ids_by_trt_id |-> DictAppend(st.col_ids_by_trt_id, trt_id, st.col_id),
     col_id |-> st.col_id + 1]

\* for idx in range(sm.samples)
RECURSIVE ColSamples(_, _, _, _)
ColSamples(st, trt_id, samples, i) ==
    IF i >= samples THEN st
    ELSE ColSamples(ColStep(st, trt_id, i), trt_id, samples, i + 1)

\* for trt_model in sm.trt_models
RECURSIVE ColGroups(_, _, _)
ColGroups(st, sm, t) ==
    IF t > Len(sm.trt_models) THEN st
    ELSE ColGroups(ColSamples(st, sm.trt_models[t].id, sm.samples, 0), sm, t + 1)

\* for sm in self.source_models
RECURSIVE ColModels(_, _, _)
ColModels(st, sms, s) ==
    IF s > Len(sms) THEN st
    ELSE ColModels(ColGroups(st, sms[s], 1), sms, s + 1)

\* CompositionInfo.__init__: cols = [], col_id = 0,
\* col_ids_by_trt_id = defaultdict(list), then the three loops
CompositionInfo(sms) ==
    ColModels([cols |-> << >>, col_ids_by_trt_id |-> << >>, col_id |-> 0],
              sms, 1)

(***************************************************************************)
(* RlzsAssoc._add_realizations(idx, lt_model, realizations, trts).         *)
(* st holds idx and the fields of the RlzsAssoc being built.               *)
(***************************************************************************)
\* The weight a new realization forgets: only the gsim realization's.
raw_weight_NoBranchWeight(lt_model, gsim_rlz) == gsim_rlz.weight

\* weight = float(lt_model.weight) * float(gsim_rlz.weight)
raw_weight(lt_model, gsim_rlz) == RMul(lt_model.weight, gsim_rlz.weight)

\* the inner loop: for trt_model in lt_model.trt_models
RECURSIVE AddToTrtModels(_, _, _, _, _, _, _)
AddToTrtModels(st, lt_model, glt, trts, rlz, i, t) ==
    IF t > Len(lt_model.trt_models) THEN st
    ELSE LET trt_model == lt_model.trt_models[t]
             gs == get_gsim_by_trt(glt, rlz.gsim_rlz, trt_model.trt)
             assoc1 == IF trt_model.trt \in trts
                       THEN DictAppend(st.rlzs_assoc, <<trt_model.id, gs>>,
                                       rlz.ordinal)
                       ELSE st.rlzs_assoc
             cids1 == IF lt_model.samples > 1
                      THEN DictAdd(st.col_ids_by_rlz, Repr(rlz),
                             col_ids_by_trt_id(source_models, trt_model.id)[i])
                      ELSE st.col_ids_by_rlz
         IN  AddToTrtModels([st EXCEPT !.rlzs_assoc = assoc1,
                                       !.col_ids_by_rlz = cids1],
                            lt_model, glt, trts, rlz, i, t + 1)

\* the outer loop: for i, gsim_rlz in enumerate(realizations)
RECURSIVE AddRealizationsFrom(_, _, _, _, _, _, _)
AddRealizationsFrom(st, lt_model, glt, rlzs_in, trts, i, rlzs) ==
    IF i > Len(rlzs_in)
    THEN [st EXCEPT !.rlzs_by_smodel[lt_model.ordinal + 1] = rlzs]
    ELSE LET gsim_rlz == rlzs_in[i]
             weight == raw_weight(lt_model, gsim_rlz)
             rlz == [ordinal |-> st.idx, sm_lt_path |-> lt_model.path,
                     gsim_rlz |-> gsim_rlz, weight |-> weight]
             st1 == AddToTrtModels(
                        [st EXCEPT !.rlz_obj = @ @@ (st.idx :> rlz)],
                        lt_model, glt, trts, rlz, i, 1)
         IN  AddRealizationsFrom([st1 EXCEPT !.idx = @ + 1], lt_model, glt,
                                 rlzs_in, trts, i + 1, Append(rlzs, st.idx))

_add_realizations(st, lt_model, glt, rlzs_in, trts) ==
    AddRealizationsFrom(st, lt_model, glt, rlzs_in, trts, 1, << >>)

(***************************************************************************)
(* Initial states: a composite source model, before get_rlzs_assoc.        *)
(***************************************************************************)
\* The two ground-motion branches of T1.
TwoGsims == CHOOSE b \in GsimChoices("T1") : Len(b) = 2

\* One source model's groups: the region types, each group's num_ruptures,
\* and the branches its ground-motion tree declares for T1 (one or two when
\* T1 is the only group, two otherwise).
BranchShapes ==
    {sh \in [trts : TrtLayouts,
             nr : UNION {[1..k -> {0, 1}] : k \in 1..Len(Trts)},
             g1 : GsimChoices("T1")] :
        /\ Len(sh.nr) = Len(sh.trts)
        /\ Len(sh.trts) > 1 => sh.g1 = TwoGsims}

\* The shapes used under sampling: T1 always declares two branches.
SampledShapes == {sh \in BranchShapes : sh.g1 = TwoGsims}

TreeOf(sh) ==
    [all_trts |-> sh.trts,
     tectonic_region_types |-> SeqToSet(sh.trts),
     values |-> [t \in SeqToSet(sh.trts) |->
                   IF t = "T1" THEN sh.g1
                   ELSE CHOOSE b \in GsimChoices(t) : TRUE]]

RECURSIVE SumLen(_, _)
SumLen(shapes, n) == IF n = 0 THEN 0
                     ELSE Len(shapes[n].trts) + SumLen(shapes, n - 1)

RECURSIVE SumTo(_, _)
SumTo(f, n) == IF n = 0 THEN 0 ELSE f[n] + SumTo(f, n - 1)

\* The source models built from the shapes: group ids run over the whole
\* composite model, ordinals are the positions, paths are distinct.
MakeModels(shapes, weights, samples) ==
    [j \in 1..Len(shapes) |->
       [name |-> j,
        weight |-> weights[j],
        path |-> <<j>>,
        ordinal |-> j - 1,
        samples |-> samples[j],
        trt_models |->
          [t \in 1..Len(shapes[j].trts) |->
             [id |-> SumLen(shapes, j - 1) + t - 1,
              trt |-> shapes[j].trts[t],
              num_ruptures |-> shapes[j].nr[t],
              gsims |-> GsimNames(TreeOf(shapes[j]).values[shapes[j].trts[t]])]]]]

\* RlzsAssoc.__init__ and the locals of get_rlzs_assoc before its loop
\* no tiling has been started
NoTiling ==
    /\ sitecol = << >>
    /\ tiles = << >>
    /\ tl_pending = {}
    /\ tl_acc = << >>
    /\ tl_pc = "idle"
    /\ calc_assoc = 0

\* no group is being constructed, nothing is being loaded or processed
NoLoading ==
    /\ group = << >>
    /\ ctor = << >>
    /\ call = << >>
    /\ parser = << >>
    /\ sp = << >>

\* no map-reduce has been started
NoExecution ==
    /\ NoTiling
    /\ NoLoading
    /\ sources = << >>
    /\ concurrent_tasks = 0
    /\ blocks = << >>
    /\ pending = {}
    /\ mr_acc = << >>
    /\ mr_pc = "idle"

InitAssoc(sms, glts, n) ==
    /\ NoExecution
    /\ source_models = sms
    /\ gsim_lt = glts
    /\ num_samples = n
    /\ pc = "build"
    /\ sm_i = 1
    /\ idx = 0
    /\ rlz_obj = << >>
    /\ rlzs_assoc = << >>
    /\ rlzs_by_smodel = [j \in 1..Len(sms) |-> << >>]
    /\ col_ids_by_rlz = << >>
    /\ error = ""
    /\ op = [name |-> "none"]

\* Full enumeration: num_samples = 0 and every source model has samples = 1.
InitEnum ==
    \E n \in 1..MaxBranches :
      \E shapes \in [1..n -> BranchShapes], weights \in [1..n -> BranchWeights] :
        InitAssoc(MakeModels(shapes, weights, [j \in 1..n |-> 1]),
                  [j \in 1..n |-> TreeOf(shapes[j])], 0)

\* Sampling: num_samples > 0; a source model sampled `samples` times has
\* the weight samples / (total number of samples). The declared number of
\* samples is the total, or differs from it (the assertion of the build).
InitSampling ==
    \E n \in 1..MaxBranches :
      \E shapes \in [1..n -> SampledShapes], samples \in [1..n -> 1..MaxSamples] :
        \E ns \in {SumTo(samples, n), MaxNumSamples} :
          /\ SumTo(samples, n) <= MaxNumSamples
          /\ InitAssoc(MakeModels(shapes,
                          [j \in 1..n |-> Norm(samples[j], SumTo(samples, n))],
                          samples),
                       [j \in 1..n |-> TreeOf(shapes[j])], ns)

Init == InitEnum \/ InitSampling

(***************************************************************************)
(* CompositeSourceModel.get_rlzs_assoc                                     *)
(***************************************************************************)
AssocState ==
    [idx |-> idx, rlz_obj |-> rlz_obj, rlzs_assoc |-> rlzs_assoc,
     rlzs_by_smodel |-> rlzs_by_smodel, col_ids_by_rlz |-> col_ids_by_rlz]

\* A build that takes every region type of the source model as effective.
EffectiveTrts_IgnoreWeight(smodel) ==
    {smodel.trt_models[t].trt : t \in 1..Len(smodel.trt_models)}

\* the effective tectonic region types of a source model
EffectiveTrts(smodel) ==
    {smodel.trt_models[t].trt : t \in
        {t \in 1..Len(smodel.trt_models) : get_weight(smodel.trt_models[t]) # 0}}

\* recompute the GSIM logic tree if needed
ReducedTree(smodel, glt) ==
    IF EffectiveTrts(smodel) # glt.tectonic_region_types
    THEN reduce(glt, EffectiveTrts(smodel))
    ELSE glt

\* One iteration of `for smodel in self.source_models`.
BuildBranch ==
    /\ pc = "build"
    /\ sm_i <= Len(source_models)
    /\ LET smodel == source_models[sm_i]
           trts == EffectiveTrts(smodel)
           glt == ReducedTree(smodel, gsim_lt[sm_i])
       IN  \E draws \in (IF num_samples # 0
                         THEN [1..smodel.samples -> 1..get_num_paths(glt)]
                         ELSE {<< >>}) :
             LET rlzs == IF num_samples # 0 THEN sample(glt, draws)
                         ELSE get_effective_rlzs(glt)
                 st == IF rlzs # << >>
                       THEN _add_realizations(AssocState, smodel, glt, rlzs, trts)
                       ELSE AssocState
             IN  /\ idx' = st.idx
                 /\ rlz_obj' = st.rlz_obj
                 /\ rlzs_assoc' = st.rlzs_assoc
                 /\ rlzs_by_smodel' = st.rlzs_by_smodel
                 /\ col_ids_by_rlz' = st.col_ids_by_rlz
                 /\ gsim_lt' = [gsim_lt EXCEPT ![sm_i] = glt]
                 /\ source_models' =
                      IF rlzs # << >>
                      THEN [source_models EXCEPT ![sm_i].trt_models =
                              [t \in 1..Len(smodel.trt_models) |->
                                 [smodel.trt_models[t] EXCEPT !.gsims =
                                    GsimNames(glt.values[smodel.trt_models[t].trt])]]]
                      ELSE source_models
    /\ sm_i' = sm_i + 1
    /\ UNCHANGED <<num_samples, pc, error, op>>
    /\ UNCHANGED execVars

Weights(objs) == [k \in 1..Len(objs) |-> rlz_obj[objs[k]].weight]

\* A final pass that does not rescale the enumerated weights.
FinalWeight_NoRescale(w, tot_weight) ==
    IF num_samples # 0 THEN Norm(1, num_samples) ELSE w

\* A final pass that leaves the sampled weights as they were built.
FinalWeight_KeepSampled(w, tot_weight) ==
    IF num_samples # 0 THEN w ELSE RDiv(w, tot_weight)

\* the weight the final pass gives a realization of raw weight w
FinalWeight(w, tot_weight) ==
    IF num_samples # 0 THEN Norm(1, num_samples) ELSE RDiv(w, tot_weight)

\* A post-pass without the zero check: the division by tot_weight raises.
PostPassFailure_NoZeroCheck(tot_weight) ==
    IF realizations = << >> THEN ""
    ELSE IF num_samples # 0
         THEN (IF Len(realizations) # num_samples
               THEN "AssertionError" ELSE "")
         ELSE (IF tot_weight = RZero THEN "ZeroDivisionError" ELSE "")

\* the exception the code after the loop raises ("" for none): the assert
\* under sampling, the ValueError for a zero total weight otherwise, and
\* neither when assoc.realizations is empty
PostPassFailure(tot_weight) ==
    IF realizations = << >> THEN ""
    ELSE IF num_samples # 0
         THEN (IF Len(realizations) # num_samples
               THEN "AssertionError" ELSE "")
         ELSE (IF tot_weight = RZero THEN "ValueError" ELSE "")

\* The code after the loop: the assertion and the weight pass.
Finish ==
    /\ pc = "build"
    /\ sm_i > Len(source_models)
    /\ LET tot_weight == RSum(Weights(realizations))
           failure == PostPassFailure(tot_weight)
       IN  /\ error' = failure
           /\ pc' = IF failure = "" THEN "done" ELSE "failed"
           /\ rlz_obj' =
                IF failure # "" \/ realizations = << >> THEN rlz_obj
                ELSE [o \in DOMAIN rlz_obj |->
                        IF o \in SeqToSet(realizations)
                        THEN [rlz_obj[o] EXCEPT
                                !.weight = FinalWeight(@, tot_weight)]
                        ELSE rlz_obj[o]]
    /\ UNCHANGED <<source_models, gsim_lt, num_samples, sm_i, idx, rlzs_assoc,
                   rlzs_by_smodel, col_ids_by_rlz, op>>
    /\ UNCHANGED execVars

Next == BuildBranch \/ Finish

Spec == Init /\ [][Next]_vars

\* the orders in which n source models may carry the ordinals 0 .. n - 1
OrdinalOrders(n) ==
    {f \in [1..n -> 0..(n - 1)] : \A j, k \in 1..n : f[j] = f[k] => j = k}

\* Full enumeration over source models listed in any order of their
\* ordinals: CompositeSourceModel.__init__ takes the list as it is given.
InitOrdinals ==
    \E n \in 1..MaxBranches :
      \E shapes \in [1..n -> BranchShapes], weights \in [1..n -> BranchWeights],
         ordinals \in OrdinalOrders(n) :
        InitAssoc([j \in 1..n |->
                     [MakeModels(shapes, weights, [k \in 1..n |-> 1])[j]
                        EXCEPT !.ordinal = ordinals[j]]],
                  [j \in 1..n |-> TreeOf(shapes[j])], 0)

SpecOrdinals == InitOrdinals /\ [][Next]_vars

(***************************************************************************)
(* Reading the index.                                                      *)
(***************************************************************************)
\* RlzsAssoc.get_col_ids(rlz), its result
get_col_ids(rlz) ==
    LET col_ids == IF Repr(rlz) \in DOMAIN col_ids_by_rlz
                   THEN col_ids_by_rlz[Repr(rlz)] ELSE {}
    IN  IF col_ids # {} THEN col_ids
        ELSE {source_models[s].trt_models[t].id :
                <<s, t>> \in {st \in (1..Len(source_models)) \X (1..Len(Trts)) :
                    /\ st[2] <= Len(source_models[st[1]].trt_models)
                    /\ source_models[st[1]].path = rlz.sm_lt_path}}

\* agg_prob(acc, prob): aggregation function for probabilities
agg_prob(acc, prob) == RSub(ROne, RMul(RSub(ROne, acc), RSub(ROne, prob)))

\* the aggregation functions passed to combine: operator.add or agg_prob
Agg(agg, a, b) == IF agg = "add" THEN RAdd(a, b) ELSE agg_prob(a, b)

\* A plain dict in place of the defaultdict: a missing key is a KeyError.
getitem_PlainDict(d, key) ==
    IF key \in DOMAIN d THEN [ok |-> TRUE, val |-> d[key]]
    ELSE [ok |-> FALSE, val |-> << >>]

\* self.rlzs_assoc[key] on the defaultdict(list): the list, [] when missing
getitem(d, key) ==
    [ok |-> TRUE, val |-> IF key \in DOMAIN d THEN d[key] ELSE << >>]

\* the defaultdict after the lookup: a missing key is inserted with []
Inserted(d, key) == IF key \in DOMAIN d THEN d ELSE d @@ (key :> << >>)

\* An accumulation that keeps the first value of a realization.
Accumulate_KeepFirst(ad, r, agg, value, curves) ==
    [ok |-> TRUE, ad |-> ad @@ (r :> value)]

\* An accumulation that overwrites instead of aggregating.
Accumulate_Overwrite(ad, r, agg, value, curves) ==
    [ok |-> TRUE, ad |-> (r :> value) @@ ad]

\* ad[rlz] = agg(ad.get(rlz, 0), value) in combine,
\* ad[rlz] = agg(ad[rlz], value) in combine_curves (a KeyError when missing);
\* r is the realization as a dict key, Repr(rlz).
Accumulate(ad, r, agg, value, curves) ==
    IF r \in DOMAIN ad
    THEN [ok |-> TRUE, ad |-> [ad EXCEPT ![r] = Agg(agg, @, value)]]
    ELSE IF curves THEN [ok |-> FALSE, ad |-> ad]
         ELSE [ok |-> TRUE, ad |-> (r :> Agg(agg, RZero, value)) @@ ad]

\* the inner loop: for rlz in self.rlzs_assoc[key]
RECURSIVE CombineRlzs(_, _, _, _, _, _)
CombineRlzs(st, rlzs, agg, value, curves, j) ==
    IF j > Len(rlzs) \/ st.error # "" THEN st
    ELSE LET a == Accumulate(st.ad, Repr(rlz_obj[rlzs[j]]), agg, value, curves)
         IN  CombineRlzs([st EXCEPT !.ad = a.ad,
                                    !.error = IF a.ok THEN "" ELSE "KeyError"],
                         rlzs, agg, value, curves, j + 1)

\* the outer loop: for key, value in results.items()
RECURSIVE CombineKeys(_, _, _, _, _)
CombineKeys(st, results, agg, curves, k) ==
    IF k > Len(results) \/ st.error # "" THEN st
    ELSE LET key == results[k][1]
             value == results[k][2]
             got == getitem(st.assoc, key)
         IN  IF ~got.ok THEN [st EXCEPT !.error = "KeyError"]
             ELSE CombineKeys(
                    CombineRlzs([st EXCEPT !.assoc = Inserted(@, key)],
                                got.val, agg, value, curves, 1),
                    results, agg, curves, k + 1)

\* RlzsAssoc.combine(results, agg): ad = AccumDict()
combine(assoc, results, agg) ==
    CombineKeys([ad |-> << >>, assoc |-> assoc, error |-> ""],
                results, agg, FALSE, 1)

\* A combine_curves that starts, like combine, from an empty AccumDict.
combine_curves_EmptyStart(assoc, results, agg, acc) ==
    CombineKeys([ad |-> << >>, assoc |-> assoc, error |-> ""],
                results, agg, FALSE, 1)

\* RlzsAssoc.combine_curves(results, agg, acc):
\* ad = AccumDict({rlz: acc for rlz in self.realizations})
combine_curves(assoc, results, agg, acc) ==
    CombineKeys([ad |-> [r \in {Repr(rlz_obj[o]) : o \in SeqToSet(realizations)}
                           |-> acc],
                 assoc |-> assoc, error |-> ""],
                results, agg, TRUE, 1)

(***************************************************************************)
(* The inputs of the read operations.                                      *)
(***************************************************************************)
\* The index of the example of RlzsAssoc.combine: RlzsAssoc(CompositionInfo(
\* [], [])) with rlzs_assoc set by hand; 0..5 stand for 'r0'..'r5'.
DoctestAssoc ==
    (<<"T1", "A">> :> <<0, 1>>) @@ (<<"T1", "B">> :> <<2, 3>>) @@
    (<<"T1", "C">> :> <<4, 5>>) @@ (<<"T2", "D">> :> <<0, 2, 4>>) @@
    (<<"T2", "E">> :> <<1, 3, 5>>)

DoctestResults ==
    <<<<<<"T1", "A">>, <<1, 100>>>>, <<<<"T1", "B">>, <<1, 50>>>>,
      <<<<"T1", "C">>, <<3, 100>>>>, <<<<"T2", "D">>, <<1, 25>>>>,
      <<<<"T2", "E">>, <<1, 20>>>>>>

Reverse(s) == [k \in 1..Len(s) |-> s[Len(s) + 1 - k]]

IsDoctest == source_models = << >>

InitDoctest ==
    /\ NoExecution
    /\ source_models = << >>
    /\ gsim_lt = << >>
    /\ num_samples = 0
    /\ pc = "done"
    /\ sm_i = 1
    /\ idx = 6
    /\ rlz_obj = [o \in 0..5 |->
                    [ordinal |-> o, sm_lt_path |-> << >>,
                     gsim_rlz |-> [value |-> << >>, weight |-> ROne],
                     weight |-> ROne]]
    /\ rlzs_assoc = DoctestAssoc
    /\ rlzs_by_smodel = << >>
    /\ col_ids_by_rlz = << >>
    /\ error = ""
    /\ op = [name |-> "none"]

\* The source models the read operations are exercised on: T1 has a nonzero
\* weight and two gsims, the source models share the weight evenly, full
\* enumeration.
OpsShapes == {sh \in BranchShapes : sh.nr[1] = 1 /\ sh.g1 = TwoGsims}

InitOps ==
    \/ \E n \in 1..MaxOpsBranches :
         \E shapes \in [1..n -> OpsShapes] :
           InitAssoc(MakeModels(shapes, [j \in 1..n |-> Norm(1, n)],
                                [j \in 1..n |-> 1]),
                     [j \in 1..n |-> TreeOf(shapes[j])], 0)
    \/ InitDoctest

NumGroups == SumTo([s \in 1..Len(source_models) |->
                      Len(source_models[s].trt_models)], Len(source_models))

\* a key of no group of the composite model
AbsentKey == IF IsDoctest THEN <<"T3", "A">> ELSE <<NumGroups, "A">>

\* the keys a results dictionary or a lookup may hold
CandidateKeys == DOMAIN rlzs_assoc \cup {AbsentKey}

\* the partial value computed for a key: distinct keys of a group, and
\* distinct groups, get distinct probabilities
ResultValue(key) ==
    IF IsDoctest
    THEN LET k == CHOOSE k \in 1..Len(DoctestResults) :
                    DoctestResults[k][1] = key \/ k = Len(DoctestResults)
         IN  DoctestResults[k][2]
    ELSE <<1, 2 + 2 * key[1] + (IF key[2] \in {"A", "D"} THEN 0 ELSE 1)>>

\* results.items(): the keys in iteration order, each with its value
ResultsInputs ==
    {[k \in 1..Len(ks) |-> <<ks[k], ResultValue(ks[k])>>] :
        ks \in {ks \in UNION {[1..n -> CandidateKeys] : n \in 0..MaxResults} :
                  \A a, b \in 1..Len(ks) : a # b => ks[a] # ks[b]}}
    \cup (IF IsDoctest THEN {DoctestResults, Reverse(DoctestResults)} ELSE {})

\* the baselines passed to combine_curves
Baselines == {RZero, <<1, 8>>}

(***************************************************************************)
(* The read operations, each on a built index.                             *)
(***************************************************************************)
\* the index is built and no read operation's result is pending
Idle == pc = "done" /\ op.name = "none"

\* assoc[key]: RlzsAssoc.__getitem__
Lookup ==
    /\ Idle
    /\ \E key \in CandidateKeys :
         LET got == getitem(rlzs_assoc, key)
         IN  /\ op' = [name |-> "getitem", key |-> key, ret |-> got.val]
             /\ error' = IF got.ok THEN "" ELSE "KeyError"
             /\ rlzs_assoc' = IF got.ok THEN Inserted(rlzs_assoc, key)
                              ELSE rlzs_assoc
    /\ UNCHANGED <<source_models, gsim_lt, num_samples, pc, sm_i, idx, rlz_obj,
                   rlzs_by_smodel, col_ids_by_rlz>>
    /\ UNCHANGED execVars

\* assoc.combine(results, agg)
Combine ==
    /\ Idle
    /\ \E results \in ResultsInputs, agg \in {"add", "agg_prob"} :
         LET st == combine(rlzs_assoc, results, agg)
         IN  /\ op' = [name |-> "combine", results |-> results, agg |-> agg,
                       acc |-> RZero, ret |-> st.ad]
             /\ error' = st.error
             /\ rlzs_assoc' = st.assoc
    /\ UNCHANGED <<source_models, gsim_lt, num_samples, pc, sm_i, idx, rlz_obj,
                   rlzs_by_smodel, col_ids_by_rlz>>
    /\ UNCHANGED execVars

\* assoc.combine_curves(results, agg_curves, acc)
CombineCurves ==
    /\ Idle
    /\ \E results \in ResultsInputs, acc \in Baselines :
         LET st == combine_curves(rlzs_assoc, results, "agg_prob", acc)
         IN  /\ op' = [name |-> "combine_curves", results |-> results,
                       agg |-> "agg_prob", acc |-> acc, ret |-> st.ad]
             /\ error' = st.error
             /\ rlzs_assoc' = st.assoc
    /\ UNCHANGED <<source_models, gsim_lt, num_samples, pc, sm_i, idx, rlz_obj,
                   rlzs_by_smodel, col_ids_by_rlz>>
    /\ UNCHANGED execVars

\* the realizations get_col_ids is called with: the first of the index
RlzInputs ==
    IF realizations = << >> THEN {} ELSE {rlz_obj[realizations[1]]}

\* assoc.get_col_ids(rlz): the lookup self.col_ids_by_rlz[rlz] is on a
\* defaultdict(set), which stores an empty set under a missing realization
GetColIds ==
    /\ Idle
    /\ \E rlz \in RlzInputs :
         /\ op' = [name |-> "get_col_ids", rlz |-> rlz, ret |-> get_col_ids(rlz)]
         /\ col_ids_by_rlz' = IF __hash__(rlz) \in DOMAIN col_ids_by_rlz
                              THEN col_ids_by_rlz
                              ELSE col_ids_by_rlz @@ (__hash__(rlz) :> {})
    /\ error' = ""
    /\ UNCHANGED <<source_models, gsim_lt, num_samples, pc, sm_i, idx, rlz_obj,
                   rlzs_assoc, rlzs_by_smodel>>
    /\ UNCHANGED execVars

\* The caller takes the result (or the exception) of the read operation.
Return ==
    /\ pc = "done"
    /\ op.name # "none"
    /\ op' = [name |-> "none"]
    /\ error' = ""
    /\ UNCHANGED <<source_models, gsim_lt, num_samples, pc, sm_i, idx, rlz_obj,
                   rlzs_assoc, rlzs_by_smodel, col_ids_by_rlz>>
    /\ UNCHANGED execVars

NextOps ==
    \/ BuildBranch \/ Finish \/ Lookup \/ Combine \/ CombineCurves
    \/ GetColIds \/ Return

SpecOps == InitOps /\ [][NextOps]_vars

(***************************************************************************)
(* The Weighted Task Partitioner, split_in_blocks of baselib.general, as   *)
(* section 4.2 of the specification describes it. An item is a record with *)
(* an id, a weight and a grouping key.                                     *)
(***************************************************************************)
TotalWeight(items) == SumTo([k \in 1..Len(items) |-> items[k].weight], Len(items))

\* the keys of the items
KeysOf(items) == {items[k].key : k \in 1..Len(items)}

\* sort/group by key: the items of the smallest key first, in input order
RECURSIVE GroupByKey(_, _)
GroupByKey(items, keys) ==
    IF keys = {} THEN << >>
    ELSE LET k0 == CHOOSE k \in keys : \A k2 \in keys : k <= k2
             HasKey(it) == it.key = k0
         IN  SelectSeq(items, HasKey) \o GroupByKey(items, keys \ {k0})

\* A chunking that drops the item that would exceed the bound.
Chunk_DropOverflow(items, i, cur, W, T, out) ==
    IF cur # << >> /\ ((TotalWeight(cur) + items[i].weight) * T > W
                       \/ items[i].key # cur[1].key)
    THEN [cur |-> << >>, out |-> Append(out, cur)]
    ELSE [cur |-> Append(cur, items[i]), out |-> out]

\* A chunking that opens a new block only once the bound is exceeded.
Chunk_CloseLate(items, i, cur, W, T, out) ==
    IF cur # << >> /\ (TotalWeight(cur) * T > W \/ items[i].key # cur[1].key)
    THEN [cur |-> <<items[i]>>, out |-> Append(out, cur)]
    ELSE [cur |-> Append(cur, items[i]), out |-> out]

\* one step of the greedy accumulation: the i-th item opens a new block when
\* adding it to the current block would exceed W / T, or when its key is
\* not the key of the current block; it joins the current block otherwise
Chunk(items, i, cur, W, T, out) ==
    IF cur # << >> /\ ((TotalWeight(cur) + items[i].weight) * T > W
                       \/ items[i].key # cur[1].key)
    THEN [cur |-> <<items[i]>>, out |-> Append(out, cur)]
    ELSE [cur |-> Append(cur, items[i]), out |-> out]

\* the greedy accumulation over the items i, i + 1, ...
RECURSIVE Chunks(_, _, _, _, _, _)
Chunks(items, i, cur, W, T, out) ==
    IF i > Len(items)
    THEN (IF cur = << >> THEN out ELSE Append(out, cur))
    ELSE LET st == Chunk(items, i, cur, W, T, out)
         IN  Chunks(items, i + 1, st.cur, W, T, st.out)

\* split_in_blocks(items, T, weight, key): no block for no item, a single
\* block of everything when T <= 0 or every weight is 0, the greedy
\* accumulation of the items grouped by key otherwise
split_in_blocks(items, T) ==
    IF items = << >> THEN << >>
    ELSE IF T <= 0 \/ TotalWeight(items) = 0 THEN <<items>>
    ELSE Chunks(GroupByKey(items, KeysOf(items)), 1, << >>,
                TotalWeight(items), T, << >>)

\* the grouping keys of the items the partitioner is exercised on
ItemKeys == {0, 1}

\* the items: the id of an item is its position in the input
ItemInputs ==
    UNION {{[k \in 1..n |-> [id |-> k, weight |-> w[k], key |-> ky[k]]] :
              w \in [1..n -> 0..MaxWeight], ky \in [1..n -> ItemKeys]} :
           n \in 0..MaxItems}

\* no composite model: an empty index
NoModel ==
    /\ source_models = << >>
    /\ gsim_lt = << >>
    /\ num_samples = 0
    /\ pc = "done"
    /\ sm_i = 1
    /\ idx = 0
    /\ rlz_obj = << >>
    /\ rlzs_assoc = << >>
    /\ rlzs_by_smodel = << >>
    /\ col_ids_by_rlz = << >>
    /\ error = ""
    /\ op = [name |-> "none"]

\* any items, any target concurrency, not yet split
InitBlocks ==
    /\ NoModel
    /\ sources \in ItemInputs
    /\ concurrent_tasks \in (-1)..MaxTasks
    /\ blocks = << >>
    /\ pending = {}
    /\ mr_acc = << >>
    /\ mr_pc = "idle"
    /\ NoTiling
    /\ NoLoading

(***************************************************************************)
(* The map-reduce of ClassicalCalculator.execute: the sources are split in *)
(* blocks by weight and trt_model_id, each block is a task, and the        *)
(* partial dictionaries are folded with agg_dicts in completion order.     *)
(***************************************************************************)
\* assoc.gsims_by_trt_id[trt_id]: the gsims of the keys of the group
gsims_by_trt_id(trt_id) ==
    {key[2] : key \in {k \in DOMAIN rlzs_assoc : k[1] = trt_id}}

\* the curves classical computes for a block and a gsim (hazard_curves_per_trt)
PartialCurve(block, gsim) ==
    <<1, 2 + 2 * block[1].id + (IF gsim \in {"A", "D"} THEN 0 ELSE 1)>>

\* classical(sources, sitecol, gsims_assoc, monitor): a dictionary with the
\* curves of the keys (trt_model_id, gsim) of the first source's group and
\* the monitor of the task b
classical(block, b) ==
    LET trt_model_id == block[1].key
    IN  [curves |-> [key \in {<<trt_model_id, gs>> :
                                gs \in gsims_by_trt_id(trt_model_id)} |->
                       PartialCurve(block, key[2])],
         calc_times |-> <<b>>]

\* agg_curves(acc, curves): the composition of the probabilities
agg_curves(a, b) == agg_prob(a, b)

\* An aggregation that keeps the curves of the last partial result.
agg_dicts_Overwrite(a, val) ==
    [ok |-> DOMAIN val.curves \subseteq DOMAIN a.curves,
     acc |-> [curves |-> [key \in DOMAIN a.curves |->
                            IF key \in DOMAIN val.curves
                            THEN val.curves[key] ELSE a.curves[key]],
              calc_times |-> a.calc_times \o val.calc_times]]

\* agg_dicts(acc, val): acc['calc_times'].extend(...) for the monitor,
\* acc[key] = agg_curves(acc[key], val[key]) for every other key (a KeyError
\* for a key the accumulator does not have)
agg_dicts(a, val) ==
    [ok |-> DOMAIN val.curves \subseteq DOMAIN a.curves,
     acc |-> [curves |-> [key \in DOMAIN a.curves |->
                            IF key \in DOMAIN val.curves
                            THEN agg_curves(a.curves[key], val.curves[key])
                            ELSE a.curves[key]],
              calc_times |-> a.calc_times \o val.calc_times]]

\* zerodict: the zero curves for every key of the index, no calc_times
zerodict == [curves |-> [key \in DOMAIN rlzs_assoc |-> RZero],
             calc_times |-> << >>]

\* apply_reduce, the dispatch: the sources are split in blocks, one task
\* per block, the accumulator starts from zerodict
Dispatch ==
    /\ mr_pc = "idle"
    /\ pc = "done"
    /\ blocks' = split_in_blocks(sources, concurrent_tasks)
    /\ pending' = 1..Len(blocks')
    /\ mr_acc' = zerodict
    /\ mr_pc' = IF blocks' = << >> THEN "returned" ELSE "reduce"
    /\ UNCHANGED <<source_models, gsim_lt, num_samples, pc, sm_i, idx, rlz_obj,
                   rlzs_assoc, rlzs_by_smodel, col_ids_by_rlz, error, op,
                   sources, concurrent_tasks>>
    /\ UNCHANGED <<tileVars, loadVars>>

\* apply_reduce, the reduction: some pending task completes and its partial
\* result is folded into the accumulator; the accumulator is returned after
\* the last one
TaskDone ==
    /\ mr_pc = "reduce"
    /\ \E b \in pending :
         LET res == agg_dicts(mr_acc, classical(blocks[b], b))
         IN  /\ mr_acc' = IF res.ok THEN res.acc ELSE mr_acc
             /\ error' = IF res.ok THEN "" ELSE "KeyError"
             /\ pending' = pending \ {b}
             /\ mr_pc' = IF ~res.ok THEN "failed"
                         ELSE IF pending' = {} THEN "returned" ELSE "reduce"
    /\ UNCHANGED <<source_models, gsim_lt, num_samples, pc, sm_i, idx, rlz_obj,
                   rlzs_assoc, rlzs_by_smodel, col_ids_by_rlz, op,
                   sources, concurrent_tasks, blocks>>
    /\ UNCHANGED <<tileVars, loadVars>>

\* the partitioner on any input
NextBlocks == Dispatch

SpecBlocks == InitBlocks /\ [][NextBlocks]_vars

\* csm.get_sources(): the sources in the order of their groups, each with a
\* positive weight
SourceInputs ==
    {items \in ItemInputs :
       /\ \A k \in 1..Len(items) : items[k].weight >= 1
       /\ \A k \in 1..(Len(items) - 1) : items[k].key <= items[k + 1].key}

\* one source model with the groups T1 (gsims A, B) and T2 (gsims D, E), to
\* be enumerated, and the sources of its groups
InitReduce ==
    /\ \E sh \in {sh \in OpsShapes : Len(sh.trts) = 2 /\ sh.nr = <<1, 1>>} :
         /\ source_models = MakeModels(<<sh>>, <<ROne>>, <<1>>)
         /\ gsim_lt = <<TreeOf(sh)>>
    /\ num_samples = 0
    /\ pc = "build"
    /\ sm_i = 1
    /\ idx = 0
    /\ rlz_obj = << >>
    /\ rlzs_assoc = << >>
    /\ rlzs_by_smodel = << << >> >>
    /\ col_ids_by_rlz = << >>
    /\ error = ""
    /\ op = [name |-> "none"]
    /\ sources \in SourceInputs
    /\ concurrent_tasks \in 0..MaxTasks
    /\ blocks = << >>
    /\ pending = {}
    /\ mr_acc = << >>
    /\ mr_pc = "idle"
    /\ NoTiling
    /\ NoLoading

NextReduce == BuildBranch \/ Finish \/ Dispatch \/ TaskDone

SpecReduce == InitReduce /\ [][NextReduce]_vars

(***************************************************************************)
(* The tiling calculator: ClassicalTilingCalculator.execute splits the     *)
(* sites in tiles and runs one classical_tiling task per tile on the same  *)
(* calculator and composite model; agg_curves_by_trt_gsim reduces them.    *)
(***************************************************************************)
\* the sites as items of the partitioner: default weight 1, no key
SiteItems(sites) ==
    [k \in 1..Len(sites) |-> [id |-> sites[k], weight |-> 1, key |-> 0]]

\* the start position of the tiles before the tile t
RECURSIVE PositionOf(_, _)
PositionOf(tls, t) ==
    IF t = 1 THEN 0 ELSE PositionOf(tls, t - 1) + Len(tls[t - 1])

\* the reduction of apply_reduce run in the task, without concurrency: the
\* partial results of the blocks folded in their order
RECURSIVE ExecFold(_, _, _)
ExecFold(bs, b, a) ==
    IF b > Len(bs) THEN [ok |-> TRUE, acc |-> a]
    ELSE LET res == agg_dicts(a, classical(bs[b], b))
         IN  IF res.ok THEN ExecFold(bs, b + 1, res.acc)
             ELSE [ok |-> FALSE, acc |-> a]

\* ClassicalCalculator.execute called by a tile task: the zero dictionary
\* over the keys of calculator.rlzs_assoc, folded with the partial results
execute == ExecFold(split_in_blocks(sources, concurrent_tasks), 1, zerodict)

\* is_effective_trt_model(result_dict, trt_model): any(...) over the keys of
\* the result, which unpacks each key in (trt_id, gsim). `before` are the
\* keys the dictionary iterates before 'calc_times'; when none of them is of
\* the group the unpacking of 'calc_times' raises ValueError
is_effective_trt_model(before, trt_model) ==
    IF \E key \in before : key[1] = trt_model.id THEN "True"
    ELSE "ValueError"

\* get_rlzs_assoc(partial(is_effective_trt_model, result)) under full
\* enumeration, from the source model j on: the loop over the source models
RECURSIVE RebuildFrom(_, _, _, _, _)
RebuildFrom(st, glts, sms, j, before) ==
    IF j > Len(sms)
    THEN [failure |-> "", st |-> st, glts |-> glts, sms |-> sms]
    ELSE
      LET smodel == sms[j]
          tms == smodel.trt_models
      IN  IF \E t \in 1..Len(tms) :
                is_effective_trt_model(before, tms[t]) = "ValueError"
          THEN [failure |-> "ValueError", st |-> st, glts |-> glts,
                sms |-> sms]
          ELSE
            LET trts == {tms[t].trt : t \in 1..Len(tms)}
                glt == IF trts # glts[j].tectonic_region_types
                       THEN reduce(glts[j], trts) ELSE glts[j]
                rlzs == get_effective_rlzs(glt)
                st1 == IF rlzs # << >>
                       THEN _add_realizations(st, smodel, glt, rlzs, trts)
                       ELSE st
                sms1 == IF rlzs # << >>
                        THEN [sms EXCEPT ![j].trt_models =
                                [t \in 1..Len(tms) |->
                                   [tms[t] EXCEPT !.gsims =
                                      GsimNames(glt.values[tms[t].trt])]]]
                        ELSE sms
            IN  RebuildFrom(st1, [glts EXCEPT ![j] = glt], sms1, j + 1, before)

\* get_rlzs_assoc, the code after the loop on the new RlzsAssoc: the
\* ValueError for a zero total weight, the weights rescaled otherwise
RebuildWeights(loop) ==
    LET rlzs == Flatten(loop.st.rlzs_by_smodel)
        tot_weight == RSum([k \in 1..Len(rlzs) |-> loop.st.rlz_obj[rlzs[k]].weight])
    IN  IF loop.failure # "" \/ rlzs = << >> THEN loop
        ELSE IF tot_weight = RZero THEN [loop EXCEPT !.failure = "ValueError"]
        ELSE [loop EXCEPT !.st.rlz_obj =
                [o \in DOMAIN loop.st.rlz_obj |->
                   [loop.st.rlz_obj[o] EXCEPT !.weight = RDiv(@, tot_weight)]]]

\* get_rlzs_assoc called by a tile task: a new RlzsAssoc, the loop, then the
\* weight pass over the new realizations
Rebuild(before) ==
    RebuildWeights(
        RebuildFrom([idx |-> 0, rlz_obj |-> << >>, rlzs_assoc |-> << >>,
                     rlzs_by_smodel |-> [j \in 1..Len(source_models) |-> << >>],
                     col_ids_by_rlz |-> << >>],
                    gsim_lt, source_models, 1, before))

\* the curves of a site of the tile
SiteCurve(curve, site) == <<curve[1], curve[2] + site>>

\* A reduction that writes the curves of a tile from the index 0 on.
agg_curves_by_trt_gsim_NoPosition(a, val, tile) ==
    [ok |-> DOMAIN val.curves \subseteq DOMAIN a.curves,
     acc |-> [curves |-> [key \in DOMAIN a.curves |->
                 IF key \in DOMAIN val.curves
                 THEN [i \in DOMAIN a.curves[key] |->
                         IF i \in 0..(Len(tile.sites) - 1)
                         THEN SiteCurve(val.curves[key], tile.sites[i + 1])
                         ELSE a.curves[key][i]]
                 ELSE a.curves[key]],
              calc_times |-> a.calc_times \o val.calc_times]]

\* agg_curves_by_trt_gsim(acc, curves_by_trt_gsim): the calc_times are
\* extended, the curves of every other key are written at the indices
\* position .. position + len(tile) - 1 of the tile
agg_curves_by_trt_gsim(a, val, tile) ==
    [ok |-> DOMAIN val.curves \subseteq DOMAIN a.curves,
     acc |-> [curves |-> [key \in DOMAIN a.curves |->
                 IF key \in DOMAIN val.curves
                 THEN [i \in DOMAIN a.curves[key] |->
                         IF i \in tile.position..(tile.position + Len(tile.sites) - 1)
                         THEN SiteCurve(val.curves[key],
                                        tile.sites[i - tile.position + 1])
                         ELSE a.curves[key][i]]
                 ELSE a.curves[key]],
              calc_times |-> a.calc_times \o val.calc_times]]

\* ClassicalTilingCalculator.execute after its get_rlzs_assoc(): the tiles,
\* concurrent_tasks set to 0, the arguments of the tasks and the accumulator
TilingDispatch ==
    /\ tl_pc = "idle"
    /\ mr_pc = "idle"
    /\ pc = "done"
    /\ sitecol # << >>
    /\ LET tls == split_in_blocks(SiteItems(sitecol),
                     IF concurrent_tasks # 0 THEN concurrent_tasks ELSE 1)
       IN  tiles' = [t \in 1..Len(tls) |->
                       [sites |-> [k \in 1..Len(tls[t]) |-> tls[t][k].id],
                        position |-> PositionOf(tls, t),
                        tileno |-> t - 1]]
    /\ concurrent_tasks' = 0
    /\ tl_pending' = 1..Len(tiles')
    /\ tl_acc' = [curves |-> [key \in DOMAIN rlzs_assoc |->
                                [i \in 0..(Len(sitecol) - 1) |-> RZero]],
                  calc_times |-> << >>]
    /\ tl_pc' = IF tiles' = << >> THEN "returned" ELSE "reduce"
    /\ UNCHANGED <<source_models, gsim_lt, num_samples, pc, sm_i, idx, rlz_obj,
                   rlzs_assoc, rlzs_by_smodel, col_ids_by_rlz, error, op,
                   sources, blocks, pending, mr_acc, mr_pc, sitecol, calc_assoc,
                   loadVars>>

\* classical_tiling after calculator.execute() returned res and the
\* rebuild returned rb (or raised), and the reduction of the task's result:
\* the rebuild may have reduced the ground-motion trees and reassigned the
\* gsims of the groups of the composite model; when it succeeded
\* calculator.rlzs_assoc is the new RlzsAssoc
TileReturn(t, res, rb) ==
    LET failure == IF ~res.ok THEN "KeyError" ELSE rb.failure
        rebuilt == res.ok /\ rb.failure = ""
        folded == agg_curves_by_trt_gsim(tl_acc, res.acc, tiles[t])
        ok == rebuilt /\ folded.ok
    IN  /\ error' = IF failure # "" THEN failure
                    ELSE IF ~folded.ok THEN "KeyError" ELSE ""
        /\ gsim_lt' = IF res.ok THEN rb.glts ELSE gsim_lt
        /\ source_models' = IF res.ok THEN rb.sms ELSE source_models
        /\ idx' = IF rebuilt THEN rb.st.idx ELSE idx
        /\ rlz_obj' = IF rebuilt THEN rb.st.rlz_obj ELSE rlz_obj
        /\ rlzs_assoc' = IF rebuilt THEN rb.st.rlzs_assoc ELSE rlzs_assoc
        /\ rlzs_by_smodel' = IF rebuilt THEN rb.st.rlzs_by_smodel
                             ELSE rlzs_by_smodel
        /\ col_ids_by_rlz' = IF rebuilt THEN rb.st.col_ids_by_rlz
                             ELSE col_ids_by_rlz
        /\ calc_assoc' = IF rebuilt THEN calc_assoc + 1 ELSE calc_assoc
        /\ tl_acc' = IF ok THEN folded.acc ELSE tl_acc
        /\ tl_pending' = tl_pending \ {t}
        /\ tl_pc' = IF ~ok THEN "failed"
                    ELSE IF tl_pending' = {} THEN "returned" ELSE "reduce"

\* classical_tiling after calculator.execute() returned res: the rebuild
\* csm.get_rlzs_assoc(partial(is_effective_trt_model, curves_by_trt_gsim)),
\* for any position of 'calc_times' among the keys of the result
TileRebuild(t, res) ==
    \E before \in SUBSET (DOMAIN res.acc.curves) :
      TileReturn(t, res, Rebuild(before))

\* a classical_tiling task and the reduction of its result: the task runs
\* calculator.execute(), then rebuilds calculator.rlzs_assoc
TileTask ==
    /\ tl_pc = "reduce"
    /\ \E t \in tl_pending : TileRebuild(t, execute)
    /\ UNCHANGED <<num_samples, pc, sm_i, op, sources, concurrent_tasks,
                   blocks, pending, mr_acc, mr_pc, sitecol, tiles, loadVars>>

\* the sources of the tiling: their weights do not matter without
\* concurrency
TilingSources ==
    {items \in SourceInputs : \A k \in 1..Len(items) : items[k].weight = 1}

\* the site collections: the sites 0 .. N - 1
SiteInputs == {[k \in 1..n |-> k - 1] : n \in 1..MaxSites}

\* one source model with the groups T1 and T2 under full enumeration, its
\* sources and the sites, before ClassicalTilingCalculator.execute
InitTiling ==
    /\ \E sh \in {sh \in OpsShapes : Len(sh.trts) = 2 /\ sh.nr = <<1, 1>>} :
         /\ source_models = MakeModels(<<sh>>, <<ROne>>, <<1>>)
         /\ gsim_lt = <<TreeOf(sh)>>
    /\ num_samples = 0
    /\ pc = "build"
    /\ sm_i = 1
    /\ idx = 0
    /\ rlz_obj = << >>
    /\ rlzs_assoc = << >>
    /\ rlzs_by_smodel = << << >> >>
    /\ col_ids_by_rlz = << >>
    /\ error = ""
    /\ op = [name |-> "none"]
    /\ sources \in TilingSources
    /\ concurrent_tasks \in 0..MaxTasks
    /\ blocks = << >>
    /\ pending = {}
    /\ mr_acc = << >>
    /\ mr_pc = "idle"
    /\ sitecol \in SiteInputs
    /\ tiles = << >>
    /\ tl_pending = {}
    /\ tl_acc = << >>
    /\ tl_pc = "idle"
    /\ calc_assoc = 0
    /\ NoLoading

NextTiling == BuildBranch \/ Finish \/ TilingDispatch \/ TileTask

SpecTiling == InitTiling /\ [][NextTiling]_vars

(***************************************************************************)
(* TrtModel: the constructor and update.                                   *)
(***************************************************************************)
\* the source ids are 1 .. MaxIds
MaxIds == 2
\* the longest list of sources given to the constructor
MaxGiven == 2
\* the length at which a list of sources cannot grow (MemoryError)
MaxHeld == 4
\* the number of update calls made on a constructed group
MaxCalls == 2

\* the default of min_mag and max_mag; the magnitudes are positive
None == -1

\* the values of src.get_min_max_mag()
MagRanges == {<<4, 6>>, <<5, 7>>}

\* the source objects: source_id, tectonic_region_type, get_min_max_mag()
SourceObjects ==
    [source_id : 1..MaxIds, tectonic_region_type : SeqToSet(Trts),
     mags : MagRanges]

\* the variables of the index and of the map-reduce, but error
assocVars == <<source_models, gsim_lt, num_samples, pc, sm_i, idx, rlz_obj,
               rlzs_assoc, rlzs_by_smodel, col_ids_by_rlz, op>>
reduceVars == <<sources, concurrent_tasks, blocks, pending, mr_acc, mr_pc>>

\* no items have been handed to the map-reduce
NoReduce ==
    /\ sources = << >>
    /\ concurrent_tasks = 0
    /\ blocks = << >>
    /\ pending = {}
    /\ mr_acc = << >>
    /\ mr_pc = "idle"

\* TrtModel(trt) before the loop of the constructor, sources being the list
\* object given (or a new empty list)
TrtModel(trt, srcs) ==
    [trt |-> trt, sources |-> srcs, min_mag |-> None, max_mag |-> None]

\* An update that takes the source whatever its region type.
update_Unchecked(self, src) ==
    [failure |-> "",
     self |-> [self EXCEPT
                 !.sources = Append(@, src),
                 !.min_mag = IF @ = None \/ src.mags[1] < @
                             THEN src.mags[1] ELSE @,
                 !.max_mag = IF @ = None \/ src.mags[2] > @
                             THEN src.mags[2] ELSE @]]

\* TrtModel.update(src): the assertion, then the source is appended and
\* min_mag, max_mag follow it
update(self, src) ==
    IF src.tectonic_region_type # self.trt
    THEN [failure |-> "AssertionError", self |-> self]
    ELSE [failure |-> "",
          self |-> [self EXCEPT
                      !.sources = Append(@, src),
                      !.min_mag = IF @ = None \/ src.mags[1] < @
                                  THEN src.mags[1] ELSE @,
                      !.max_mag = IF @ = None \/ src.mags[2] > @
                                  THEN src.mags[2] ELSE @]]

\* the lists of sources given to the constructor
GivenLists == UNION {[1..n -> SourceObjects] : n \in 0..MaxGiven}

\* TrtModel(trt, sources) at the head of its loop: self.sources is the list
\* given
InitGroup ==
    /\ NoModel
    /\ NoReduce
    /\ NoTiling
    /\ \E trt \in SeqToSet(Trts), srcs \in GivenLists :
         /\ group = TrtModel(trt, srcs)
         /\ ctor = [given |-> srcs, it |-> 0, stage |-> "loop"]
    /\ call = [no |-> 0, src |-> << >>]
    /\ parser = << >>
    /\ sp = << >>

\* one turn of `for src in self.sources: self.update(src)`: the iterator
\* reads the list at its position, as long as the list is longer than that,
\* and update appends to that same list
Construct ==
    /\ ctor.stage = "loop"
    /\ IF ctor.it >= Len(group.sources)
       THEN /\ ctor' = [ctor EXCEPT !.stage = "ready"]
            /\ UNCHANGED <<group, error>>
       ELSE LET r == update(group, group.sources[ctor.it + 1])
            IN  IF r.failure # ""
                THEN /\ error' = r.failure
                     /\ ctor' = [ctor EXCEPT !.stage = "failed"]
                     /\ UNCHANGED group
                ELSE IF Len(group.sources) >= MaxHeld
                THEN /\ error' = "MemoryError"
                     /\ ctor' = [ctor EXCEPT !.stage = "failed"]
                     /\ UNCHANGED group
                ELSE /\ group' = r.self
                     /\ ctor' = [ctor EXCEPT !.it = @ + 1]
                     /\ UNCHANGED error
    /\ UNCHANGED <<assocVars, reduceVars, tileVars, call, parser, sp>>

\* a call of update on a constructed group, with any source; the caller
\* sees the AssertionError or goes on
Update ==
    /\ ctor.stage = "ready"
    /\ call.no < MaxCalls
    /\ \E src \in SourceObjects :
         LET r == update(group, src)
         IN  /\ group' = r.self
             /\ error' = r.failure
             /\ call' = [no |-> call.no + 1, src |-> src]
    /\ UNCHANGED <<assocVars, reduceVars, tileVars, ctor, parser, sp>>

NextGroup == Construct \/ Update

SpecGroup == InitGroup /\ [][NextGroup]_vars

(***************************************************************************)
(* parse_source_model, called once for each source model of the composite  *)
(* model, and the ordering of the groups it returns.                       *)
(***************************************************************************)
\* the number of source nodes read while a composite model is loaded
MaxNodes == 4
\* the number of source models of the composite model
MaxFiles == 2

\* the order of the region type strings
StrLess(a, b) == IndexOf(Trts, a) < IndexOf(Trts, b)

\* An ordering by the number of sources alone.
lt_CountOnly(self, other) == Len(self.sources) < Len(other.sources)

\* TrtModel.__lt__
__lt__(self, other) ==
    IF Len(self.sources) = Len(other.sources)
    THEN StrLess(self.trt, other.trt)
    ELSE Len(self.sources) < Len(other.sources)

\* one insertion of the sort: x goes before the first element it is less
\* than, after the elements it is not less than
RECURSIVE Insert(_, _)
Insert(out, x) ==
    IF out = << >> THEN <<x>>
    ELSE IF __lt__(x, Head(out)) THEN <<x>> \o out
    ELSE <<Head(out)>> \o Insert(Tail(out), x)

\* sorted(groups): a stable sort that compares with __lt__ only
RECURSIVE sorted(_)
sorted(seq) ==
    IF seq = << >> THEN << >>
    ELSE Insert(sorted(SubSeq(seq, 1, Len(seq) - 1)), seq[Len(seq)])

\* the orders in which a dictionary may yield its values
ValueOrders(d) ==
    {ks \in [1..Cardinality(DOMAIN d) -> DOMAIN d] :
       \A j, k \in DOMAIN ks : ks[j] = ks[k] => j = k}

\* converter.convert_node(src_node): the sources of the nodes, which differ
\* in their id and region type
ParsedSources == {src \in SourceObjects : src.mags = <<4, 6>>}

\* the locals of parse_source_model before its loop
ParseLocals ==
    [source_stats_dict |-> << >>, source_ids |-> {}, no |-> 0]

\* the first parse_source_model call of the loading of a composite model
InitLoad ==
    /\ NoModel
    /\ NoReduce
    /\ NoTiling
    /\ group = << >>
    /\ ctor = << >>
    /\ call = << >>
    /\ parser = [stage |-> "parse", locals |-> ParseLocals, nodes |-> 0,
                 values |-> << >>, trt_models |-> << >>]
    /\ sp = << >>

\* one turn of the loop of parse_source_model over the source nodes: the
\* check of the source id, the group of the region type, its update
ParseNode ==
    /\ parser.stage = "parse"
    /\ parser.nodes < MaxNodes
    /\ \E src \in ParsedSources :
         LET loc == parser.locals
             trt == src.tectonic_region_type
             tm == IF trt \in DOMAIN loc.source_stats_dict
                   THEN loc.source_stats_dict[trt]
                   ELSE TrtModel(trt, << >>)
             r == update(tm, src)
         IN  IF src.source_id \in loc.source_ids
             THEN /\ error' = "DuplicatedID"
                  /\ parser' = [parser EXCEPT !.stage = "failed",
                                              !.nodes = @ + 1]
             ELSE /\ error' = r.failure
                  /\ parser' =
                       [parser EXCEPT
                          !.nodes = @ + 1,
                          !.locals =
                             [source_stats_dict |->
                                [t \in DOMAIN loc.source_stats_dict \cup {trt}
                                   |-> IF t = trt THEN r.self
                                       ELSE loc.source_stats_dict[t]],
                              source_ids |-> loc.source_ids \cup {src.source_id},
                              no |-> loc.no + 1]]
    /\ UNCHANGED <<assocVars, reduceVars, tileVars, group, ctor, call, sp>>

\* the end of the nodes: sorted(source_stats_dict.values()), the values in
\* the order the dictionary yields them
ParseReturn ==
    /\ parser.stage = "parse"
    /\ \E order \in ValueOrders(parser.locals.source_stats_dict) :
         LET values == [k \in DOMAIN order |->
                          parser.locals.source_stats_dict[order[k]]]
         IN  parser' = [parser EXCEPT
                          !.stage = "returned",
                          !.values = values,
                          !.trt_models = Append(@, sorted(values))]
    /\ UNCHANGED <<assocVars, reduceVars, tileVars, error, group, ctor, call,
                   sp>>

\* the loader parses the next source model: a new parse_source_model call
ParseNext ==
    /\ parser.stage = "returned"
    /\ Len(parser.trt_models) < MaxFiles
    /\ parser' = [parser EXCEPT !.stage = "parse", !.locals = ParseLocals]
    /\ UNCHANGED <<assocVars, reduceVars, tileVars, error, group, ctor, call,
                   sp>>

\* the loader has parsed every source model: CompositeSourceModel(...)
Compose ==
    /\ parser.stage = "returned"
    /\ parser' = [parser EXCEPT !.stage = "loaded"]
    /\ UNCHANGED <<assocVars, reduceVars, tileVars, error, group, ctor, call,
                   sp>>

NextLoad == ParseNode \/ ParseReturn \/ ParseNext \/ Compose

SpecLoad == InitLoad /\ [][NextLoad]_vars

(***************************************************************************)
(* The source processors: SourceFilter.process, filter_and_split and       *)
(* SourceFilterSplitter.process, on the sources of one source model, and   *)
(* the get_rlzs_assoc() call that follows.                                 *)
(***************************************************************************)
\* the number of sources of the composite model
MaxSources == 2

SourceClasses == {"PointSource", "AreaSource", "SimpleFaultSource"}

\* csm.get_sources(): the sources in the order of their groups, with
\* distinct ids; near tells whether filter_sites_by_distance_to_source
\* returns sites, part is the position of a sub-source in its source
ProcessorSources ==
    {ss \in UNION {[1..n -> [trt_model_id : 0..1, source_id : 1..MaxSources,
                            cls : SourceClasses, near : BOOLEAN,
                            part : {0}, weight : {RZero}]] :
                     n \in 0..MaxSources} :
       /\ \A j, k \in 1..Len(ss) : ss[j].source_id = ss[k].source_id => j = k
       /\ \A k \in 1..(Len(ss) - 1) :
            ss[k].trt_model_id <= ss[k + 1].trt_model_id}

\* get_weight(src): every source and sub-source has one rupture
get_source_weight(src) ==
    IF src.cls = "PointSource" THEN <<1, 40>> ELSE ROne

\* sourceconverter.split_source: a point source is not split, an area
\* source gives point sources, another source gives sources of its class;
\* the sub-sources keep the id of their source
split_source(src) ==
    IF src.cls = "PointSource" THEN <<src>>
    ELSE [k \in 1..2 |->
            [src EXCEPT !.part = k,
                        !.cls = IF src.cls = "AreaSource"
                                THEN "PointSource" ELSE @]]

\* A filter that keeps the sources far from the sites too.
filter_KeepFar(self, src) ==
    [trt_model_id |-> src.trt_model_id,
     source_id |-> src.source_id,
     sources |-> <<IF self.weight
                   THEN [src EXCEPT !.weight = get_source_weight(src)]
                   ELSE src>>]

\* SourceFilter.filter(src): the SourceInfo without its class, weight and
\* times; the weight of a source kept is set when self.weight is true
filter(self, src) ==
    [trt_model_id |-> src.trt_model_id,
     source_id |-> src.source_id,
     sources |-> IF ~src.near THEN << >>
                 ELSE <<IF self.weight
                        THEN [src EXCEPT !.weight = get_source_weight(src)]
                        ELSE src>>]

\* filter_and_split(src, sourceprocessor)
filter_and_split(src, sourceprocessor) ==
    IF sourceprocessor.sitecol /\ filter(sourceprocessor, src).sources = << >>
    THEN filter(sourceprocessor, src)
    ELSE [trt_model_id |-> src.trt_model_id,
          source_id |-> src.source_id,
          sources |-> [k \in DOMAIN split_source(src) |->
                         IF sourceprocessor.weight
                         THEN [split_source(src)[k] EXCEPT
                                 !.weight = get_source_weight(split_source(src)[k])]
                         ELSE split_source(src)[k]]]

\* AccumDict + dict and AccumDict += dict: the values of the keys of both
\* are added, here lists
AccumPlus(a, b) ==
    [key \in DOMAIN a \cup DOMAIN b |->
       IF key \in DOMAIN a /\ key \in DOMAIN b THEN a[key] \o b[key]
       ELSE IF key \in DOMAIN a THEN a[key] ELSE b[key]]

\* SourceFilter.agg_source_info(acc, info), but self.infos
agg_source_info(a, info) ==
    AccumPlus(a, (info.trt_model_id :> info.sources))

\* one insertion of the sort by source_id: after the sources whose id is
\* not greater
RECURSIVE InsertById(_, _)
InsertById(out, x) ==
    IF out = << >> THEN <<x>>
    ELSE IF x.source_id < Head(out).source_id THEN <<x>> \o out
    ELSE <<Head(out)>> \o InsertById(Tail(out), x)

\* sorted(sources, key=operator.attrgetter('source_id')), a stable sort
RECURSIVE sorted_by_source_id(_)
sorted_by_source_id(seq) ==
    IF seq = << >> THEN << >>
    ELSE InsertById(sorted_by_source_id(SubSeq(seq, 1, Len(seq) - 1)),
                    seq[Len(seq)])

\* the ids of the groups of the composite model
CsmGroupIds ==
    UNION {{source_models[s].trt_models[t].id :
              t \in 1..Len(source_models[s].trt_models)} :
             s \in 1..Len(source_models)}

\* An update that leaves the sources in the order of sources_by_trt.
SourceFilter_update_Unsorted(sources_by_trt) ==
    [id \in CsmGroupIds |->
       IF id \in DOMAIN sources_by_trt THEN sources_by_trt[id] ELSE << >>]

\* SourceFilter.update(csm, sources_by_trt): trt_model.sources of every
\* group of the composite model
SourceFilter_update(sources_by_trt) ==
    [id \in CsmGroupIds |->
       sorted_by_source_id(IF id \in DOMAIN sources_by_trt
                           THEN sources_by_trt[id] ELSE << >>)]

\* the loop of SourceFilter.process over the first n sources
RECURSIVE FilterFold(_, _)
FilterFold(self, n) ==
    IF n = 0 THEN << >>
    ELSE agg_source_info(FilterFold(self, n - 1), filter(self, self.sources[n]))

\* reduce(self.agg_source_info, starmap(filter_and_split, ...), AccumDict())
\* over those of the first n sources whose position is in `which`
RECURSIVE SplitFold(_, _, _)
SplitFold(self, n, which) ==
    IF n = 0 THEN << >>
    ELSE IF n \in which
    THEN agg_source_info(SplitFold(self, n - 1, which),
                         filter_and_split(self.sources[n], self))
    ELSE SplitFold(self, n - 1, which)

\* the positions of the fast and of the slow sources
FastSources(self) ==
    {k \in 1..Len(self.sources) :
       self.sources[k].cls \in {"PointSource", "AreaSource"}}
SlowSources(self) == (1..Len(self.sources)) \ FastSources(self)

\* the source processors: a SourceFilter with a site collection, a
\* SourceFilterSplitter with or without one
Processors ==
    {[kind |-> "SourceFilter", sitecol |-> TRUE, weight |-> FALSE],
     [kind |-> "SourceFilterSplitter", sitecol |-> TRUE, weight |-> TRUE],
     [kind |-> "SourceFilterSplitter", sitecol |-> FALSE, weight |-> TRUE]}

\* one source model with the groups T1 and T2 as parse_source_model leaves
\* them (num_ruptures = 0), their sources, and a source processor
InitProcess ==
    /\ \E sh \in {sh \in BranchShapes : /\ Len(sh.trts) = 2
                                       /\ sh.nr = <<0, 0>>} :
         /\ source_models = MakeModels(<<sh>>, <<ROne>>, <<1>>)
         /\ gsim_lt = <<TreeOf(sh)>>
    /\ num_samples = 0
    /\ pc = "process"
    /\ sm_i = 1
    /\ idx = 0
    /\ rlz_obj = << >>
    /\ rlzs_assoc = << >>
    /\ rlzs_by_smodel = << << >> >>
    /\ col_ids_by_rlz = << >>
    /\ error = ""
    /\ op = [name |-> "none"]
    /\ NoReduce
    /\ NoTiling
    /\ group = << >>
    /\ ctor = << >>
    /\ call = << >>
    /\ parser = << >>
    /\ \E p \in Processors, ss \in ProcessorSources :
         sp = [kind |-> p.kind, sitecol |-> p.sitecol, weight |-> p.weight,
               sources |-> ss,
               trt_model_sources |->
                 [id \in 0..1 |-> SelectSeq(ss, LAMBDA x : x.trt_model_id = id)],
               sources_by_trt |-> << >>,
               slow |-> << >>,
               pending |-> {},
               stage |-> "loaded"]

\* csm.count_ruptures(): the groups whose num_ruptures is 0 get the number
\* of ruptures of their sources, one each
count_ruptures(sms) ==
    [s \in 1..Len(sms) |->
       [sms[s] EXCEPT !.trt_models =
          [t \in 1..Len(sms[s].trt_models) |->
             IF sms[s].trt_models[t].num_ruptures = 0
             THEN [sms[s].trt_models[t] EXCEPT
                     !.num_ruptures =
                        Len(sp.trt_model_sources[sms[s].trt_models[t].id])]
             ELSE sms[s].trt_models[t]]]]

\* a csm.count_ruptures() call before or after the processing
CountRuptures ==
    /\ pc = "process"
    /\ sp.stage \in {"loaded", "updated"}
    /\ source_models' = count_ruptures(source_models)
    /\ UNCHANGED <<gsim_lt, num_samples, pc, sm_i, idx, rlz_obj, rlzs_assoc,
                   rlzs_by_smodel, col_ids_by_rlz, error, op, execVars>>

\* SourceFilter.process(csm)
Process ==
    /\ pc = "process"
    /\ sp.kind = "SourceFilter"
    /\ sp.stage = "loaded"
    /\ sp' = [sp EXCEPT
                !.sources_by_trt = FilterFold(sp, Len(sp.sources)),
                !.trt_model_sources =
                   SourceFilter_update(FilterFold(sp, Len(sp.sources))),
                !.stage = "updated"]
    /\ UNCHANGED <<assocVars, reduceVars, tileVars, error, group, ctor, call,
                   parser>>

\* SourceFilterSplitter.process(csm) up to ss.reduce: the slow sources are
\* submitted, the fast ones are processed in their order
SplitterStart ==
    /\ pc = "process"
    /\ sp.kind = "SourceFilterSplitter"
    /\ sp.stage = "loaded"
    /\ sp' = [sp EXCEPT
                !.sources_by_trt =
                   AccumPlus(<< >>, SplitFold(sp, Len(sp.sources), FastSources(sp))),
                !.pending = SlowSources(sp),
                !.stage = "reduce"]
    /\ UNCHANGED <<assocVars, reduceVars, tileVars, error, group, ctor, call,
                   parser>>

\* ss.reduce(self.agg_source_info): the result of a filter_and_split task
\* is aggregated, in the order of completion
SlowDone ==
    /\ sp.stage = "reduce"
    /\ \E k \in sp.pending :
         sp' = [sp EXCEPT
                  !.slow = agg_source_info(@, filter_and_split(sp.sources[k], sp)),
                  !.pending = @ \ {k}]
    /\ UNCHANGED <<assocVars, reduceVars, tileVars, error, group, ctor, call,
                   parser>>

\* the end of SourceFilterSplitter.process: sources_by_trt += the reduced
\* dictionary, then self.update(csm, sources_by_trt)
SplitterUpdate ==
    /\ sp.stage = "reduce"
    /\ sp.pending = {}
    /\ sp' = [sp EXCEPT
                !.sources_by_trt = AccumPlus(@, sp.slow),
                !.trt_model_sources =
                   SourceFilter_update(AccumPlus(sp.sources_by_trt, sp.slow)),
                !.stage = "updated"]
    /\ UNCHANGED <<assocVars, reduceVars, tileVars, error, group, ctor, call,
                   parser>>

\* csm.get_rlzs_assoc() called after the processing: RlzsAssoc(...) and the
\* locals before the loop
GetRlzsAssoc ==
    /\ pc = "process"
    /\ sp.stage = "updated"
    /\ pc' = "build"
    /\ UNCHANGED <<source_models, gsim_lt, num_samples, sm_i, idx, rlz_obj,
                   rlzs_assoc, rlzs_by_smodel, col_ids_by_rlz, error, op,
                   execVars>>

NextProcess ==
    \/ CountRuptures \/ Process \/ SplitterStart \/ SlowDone \/ SplitterUpdate
    \/ GetRlzsAssoc \/ BuildBranch \/ Finish

SpecProcess == InitProcess /\ [][NextProcess]_vars

(***************************************************************************)
(* Properties of the build.                                                *)
(***************************************************************************)
BuildDone == pc = "done"
LoopDone == pc = "build" /\ sm_i > Len(source_models)
TrtModels == UNION {SeqToSet(source_models[s].trt_models) :
                      s \in 1..Len(source_models)}
Skipped(s) == rlzs_by_smodel[s] = << >>

\* C2: without sampling, the weights of the realizations of a built index
\* sum to 1 (exactly, in exact arithmetic), whatever the branch weights and
\* however many branches or region types were pruned or skipped.
C2_WeightsSumToOne ==
    (BuildDone /\ num_samples = 0 /\ realizations # << >>)
        => RSum(Weights(realizations)) = ROne

\* C2 witness: a built index, one branch skipped, whose weights were rescaled.
C2_Witness ==
    /\ BuildDone /\ num_samples = 0 /\ Len(realizations) > 1
    /\ \E s \in 1..Len(source_models) : Skipped(s)
    /\ \E k \in 1..Len(realizations) :
         LET r == rlz_obj[realizations[k]]
         IN  r.weight # RMul(source_models[r.sm_lt_path[1]].weight,
                              r.gsim_rlz.weight)

\* C3: with sampling, a built index has exactly num_samples realizations,
\* each of weight 1/num_samples; when the samples of the source models do
\* not add up to num_samples the build fails its assertion.
C3_SamplingExact ==
    /\ (BuildDone /\ num_samples # 0) =>
          /\ Len(realizations) = num_samples
          /\ \A k \in 1..Len(realizations) :
               rlz_obj[realizations[k]].weight = Norm(1, num_samples)
    /\ (pc \in {"done", "failed"} /\ num_samples # 0
        /\ SumTo([s \in 1..Len(source_models) |-> source_models[s].samples],
                 Len(source_models)) # num_samples)
          => (pc = "failed" /\ error = "AssertionError")

\* C3 witness: a sampled index of three realizations over two source models,
\* one of them built with a raw weight other than 1/3.
C3_Witness ==
    /\ BuildDone /\ num_samples = 3 /\ Len(source_models) = 2
    /\ \E k \in 1..Len(realizations) :
         LET r == rlz_obj[realizations[k]]
         IN  RMul(source_models[r.sm_lt_path[1]].weight, r.gsim_rlz.weight)
               # Norm(1, 3)

\* the number of branches of the effective region types of source model s
RECURSIVE EffectivePaths(_, _)
EffectivePaths(s, t) ==
    IF t = 0 THEN 1
    ELSE (IF get_weight(source_models[s].trt_models[t]) # 0
          THEN Len(source_models[s].trt_models[t].gsims) ELSE 1)
         * EffectivePaths(s, t - 1)

\* C8: no key of the index belongs to a region-type group of zero weight,
\* and under full enumeration the zero-weight groups multiply no
\* realizations: a processed source model has one realization per path
\* through its nonzero-weight groups (none when it has no such group).
C8_NoZeroWeightKeys ==
    /\ \A key \in DOMAIN rlzs_assoc :
         \A tm \in TrtModels : tm.id = key[1] => get_weight(tm) # 0
    /\ (BuildDone /\ num_samples = 0) =>
         \A s \in 1..Len(source_models) :
           Len(rlzs_by_smodel[s]) =
             IF \A t \in 1..Len(source_models[s].trt_models) :
                    get_weight(source_models[s].trt_models[t]) = 0
             THEN 0
             ELSE EffectivePaths(s, Len(source_models[s].trt_models))

\* C8 witness: a built index over a source model with a zero-weight group
\* beside a nonzero-weight one.
C8_Witness ==
    /\ BuildDone /\ num_samples = 0
    /\ \E s \in 1..Len(source_models) :
         /\ ~Skipped(s)
         /\ \E t \in 1..Len(source_models[s].trt_models) :
              get_weight(source_models[s].trt_models[t]) = 0

\* the end-to-end scenario: branch A (weight 0.6, one group, two gsims of
\* weight 0.5) and branch B (weight 0.4, same region type, one gsim).
IsScenarioAB ==
    /\ num_samples = 0 /\ Len(source_models) = 2
    /\ source_models[1].weight = <<3, 5>> /\ source_models[2].weight = <<2, 5>>
    /\ \A s \in 1..2 :
         /\ Len(source_models[s].trt_models) = 1
         /\ source_models[s].trt_models[1].trt = "T1"
         /\ get_weight(source_models[s].trt_models[1]) # 0
    /\ gsim_lt[1].values["T1"] = TwoGsims
    /\ Len(gsim_lt[2].values["T1"]) = 1

\* C9: under full enumeration each source model gets exactly one realization
\* per enumerated gsim realization, in order, with raw weight
\* branch.weight * gsim_rlz.weight; in the scenario A/B the build yields 3
\* realizations of weights 0.3, 0.3, 0.4, before and after the final pass.
C9_EnumerationWeights ==
    /\ (LoopDone /\ num_samples = 0) =>
         \A s \in 1..Len(source_models) :
           LET enum == get_effective_rlzs(gsim_lt[s])
           IN  /\ Len(rlzs_by_smodel[s]) = Len(enum)
               /\ \A k \in 1..Len(enum) :
                    LET r == rlz_obj[rlzs_by_smodel[s][k]]
                    IN  /\ r.gsim_rlz = enum[k]
                        /\ r.sm_lt_path = source_models[s].path
                        /\ r.weight = RMul(source_models[s].weight,
                                           enum[k].weight)
    /\ (IsScenarioAB /\ (LoopDone \/ BuildDone)) =>
         Weights(realizations) = <<<<3, 10>>, <<3, 10>>, <<2, 5>>>>
    /\ (IsScenarioAB /\ pc # "build") => BuildDone

\* C9 witness: the scenario A/B, built.
C9_Witness == IsScenarioAB /\ BuildDone

\* the collection ids the i-th realization of source model s is tagged with
TaggedColIds(s, i) ==
    {col_ids_by_trt_id(source_models, source_models[s].trt_models[t].id)[i] :
        t \in 1..Len(source_models[s].trt_models)}

\* C10: under oversampling, get_col_ids of a realization of the built index
\* is the set of collection ids it was tagged with: for the i-th draw of its
\* source model, the i-th collection id of each of its groups (stated for
\* the source models all of whose groups have a nonzero weight).
C10_ColIdsAreTagged ==
    BuildDone =>
      \A s \in 1..Len(source_models) :
        (/\ source_models[s].samples > 1
         /\ \A t \in 1..Len(source_models[s].trt_models) :
              get_weight(source_models[s].trt_models[t]) # 0) =>
          \A i \in 1..Len(rlzs_by_smodel[s]) :
            get_col_ids(rlz_obj[rlzs_by_smodel[s][i]]) = TaggedColIds(s, i)

(***************************************************************************)
(* Properties of the read operations.                                      *)
(***************************************************************************)
Returned(name) == pc = "done" /\ op.name = name
CombineReturned == pc = "done" /\ op.name \in {"combine", "combine_curves"}

\* a realization as the key of the returned dictionary
RlzKey(o) == Repr(rlz_obj[o])

\* the realizations listed under a key of the index
ListOf(key) == IF key \in DOMAIN rlzs_assoc THEN rlzs_assoc[key] ELSE << >>

\* the realizations listed under at least one key of results
Listed(results) ==
    UNION {SeqToSet(ListOf(results[k][1])) : k \in 1..Len(results)}

\* agg folded, from acc, over the values of the keys of results[k..] that
\* list the realization o
RECURSIVE FoldFor(_, _, _, _, _)
FoldFor(o, results, agg, k, acc) ==
    IF k > Len(results) THEN acc
    ELSE FoldFor(o, results, agg, k + 1,
                 IF o \in SeqToSet(ListOf(results[k][1]))
                 THEN Agg(agg, acc, results[k][2]) ELSE acc)

\* r0 .. r5 of the example: 0.05, 0.06, 0.06, 0.07, 0.07, 0.08
DoctestExpected ==
    <<<<1, 20>>, <<3, 50>>, <<3, 50>>, <<7, 100>>, <<7, 100>>, <<2, 25>>>>

\* C1: combine returns, for exactly the realizations listed under at least
\* one key of results, agg folded from 0 over the values of the keys that
\* list the realization; with addition on the reference example this gives
\* r0 = 0.05, r1 = 0.06, r2 = 0.06, r3 = 0.07, r4 = 0.07, r5 = 0.08.
C1_CombineFolds ==
    Returned("combine") =>
      /\ error = ""
      /\ DOMAIN op.ret = {RlzKey(o) : o \in Listed(op.results)}
      /\ \A o \in Listed(op.results) :
           op.ret[RlzKey(o)] = FoldFor(o, op.results, op.agg, 1, RZero)
      /\ (IsDoctest /\ op.agg = "add"
          /\ op.results \in {DoctestResults, Reverse(DoctestResults)}) =>
           \A o \in 0..5 : op.ret[RlzKey(o)] = DoctestExpected[o + 1]

\* C1 witness: the reference example, combined with addition.
C1_Witness ==
    /\ Returned("combine") /\ IsDoctest
    /\ op.agg = "add" /\ op.results = DoctestResults

\* the result of the returned operation, had results been iterated as rs
ResultOn(rs) ==
    IF op.name = "combine" THEN combine(rlzs_assoc, rs, op.agg)
    ELSE combine_curves(rlzs_assoc, rs, op.agg, op.acc)

Reorderings(rs) ==
    {[k \in 1..Len(rs) |-> rs[p[k]]] : p \in Permutations(1..Len(rs))}

\* C4: with addition or agg_prob, the mapping returned by combine and by
\* combine_curves is the same for every order in which the keys of results
\* are iterated.
C4_OrderInvariant ==
    (CombineReturned /\ error = "") =>
      \A rs \in Reorderings(op.results) :
        ResultOn(rs).error = "" /\ ResultOn(rs).ad = op.ret

\* C4 witness: combine_curves over two keys that feed one realization.
C4_Witness ==
    /\ Returned("combine_curves") /\ error = "" /\ Len(op.results) = 2
    /\ op.results[1][2] # op.results[2][2]
    /\ SeqToSet(ListOf(op.results[1][1]))
         \cap SeqToSet(ListOf(op.results[2][1])) # {}

\* C5: combine_curves on a built index returns a mapping over exactly the
\* realizations of the index, does not fail when keys of the index are
\* missing from results, and maps a realization that no key of results
\* lists to the baseline acc.
C5_CurvesCoverAll ==
    (Returned("combine_curves") /\ ~IsDoctest) =>
      /\ error = ""
      /\ DOMAIN op.ret = {RlzKey(o) : o \in SeqToSet(realizations)}
      /\ \A o \in SeqToSet(realizations) \ Listed(op.results) :
           op.ret[RlzKey(o)] = op.acc

\* C5 witness: a nonzero baseline, a key of the index missing from results,
\* one realization aggregated and another left at the baseline.
C5_Witness ==
    /\ Returned("combine_curves") /\ ~IsDoctest /\ op.acc # RZero
    /\ \E key \in DOMAIN rlzs_assoc :
         /\ ListOf(key) # << >>
         /\ \A k \in 1..Len(op.results) : op.results[k][1] # key
    /\ Listed(op.results) # {}
    /\ SeqToSet(realizations) \ Listed(op.results) # {}

\* the results without the keys that list no realization
RECURSIVE WithoutEmptyKeys(_)
WithoutEmptyKeys(rs) ==
    IF rs = << >> THEN << >>
    ELSE (IF ListOf(Head(rs)[1]) = << >> THEN << >> ELSE <<Head(rs)>>)
         \o WithoutEmptyKeys(Tail(rs))

\* C6: combine and combine_curves on a built index, given results with keys
\* absent from the association, raise no error and return what they return
\* without those keys; with no other key, combine_curves leaves every
\* realization at acc and combine aggregates nothing.
C6_AbsentKeysHarmless ==
    (CombineReturned /\ ~IsDoctest
     /\ WithoutEmptyKeys(op.results) # op.results) =>
      /\ error = ""
      /\ op.ret = ResultOn(WithoutEmptyKeys(op.results)).ad
      /\ WithoutEmptyKeys(op.results) = << >> =>
           IF op.name = "combine" THEN DOMAIN op.ret = {}
           ELSE /\ DOMAIN op.ret = {RlzKey(o) : o \in SeqToSet(realizations)}
                /\ \A r \in DOMAIN op.ret : op.ret[r] = op.acc

\* C6 witness: combine over a key of the index and a key absent from it.
C6_Witness ==
    /\ Returned("combine") /\ ~IsDoctest /\ Len(op.results) = 2
    /\ \E k \in 1..2 : op.results[k][1] = AbsentKey
    /\ Listed(op.results) # {}

\* the realizations the build maps to a key: those of the source model of
\* the group key[1], if it has a nonzero weight, whose gsim for the group's
\* region type is key[2]
MappedRlzs(key) ==
    UNION {{o \in SeqToSet(rlzs_by_smodel[st[1]]) :
              get_gsim_by_trt(gsim_lt[st[1]], rlz_obj[o].gsim_rlz,
                              source_models[st[1]].trt_models[st[2]].trt)
                = key[2]} :
           st \in {st \in (1..Len(source_models)) \X (1..Len(Trts)) :
                     /\ st[2] <= Len(source_models[st[1]].trt_models)
                     /\ source_models[st[1]].trt_models[st[2]].id = key[1]
                     /\ get_weight(source_models[st[1]].trt_models[st[2]]) # 0}}

\* C7: assoc[key] on a built index raises no error and returns the
\* realizations mapped to the key: the empty list for a key with none.
C7_LookupNeverFails ==
    (Returned("getitem") /\ ~IsDoctest) =>
      /\ error = ""
      /\ SeqToSet(op.ret) = MappedRlzs(op.key)
      /\ MappedRlzs(op.key) = {} => op.ret = << >>

\* C7 witness: the lookup of a key with no mapped realizations.
C7_Witness ==
    /\ Returned("getitem") /\ ~IsDoctest
    /\ MappedRlzs(op.key) = {} /\ op.ret = << >>

(***************************************************************************)
(* Properties of the realization objects.                                  *)
(***************************************************************************)
\* the realizations created so far whose gsim path names a gsim for every
\* region type
FullRlzs(objs) ==
    {o \in DOMAIN objs : "@" \notin SeqToSet(objs[o].gsim_rlz.value)}

\* C11: two realizations are equal, and hash equal, if and only if their
\* (source-model path, gsim path) identifiers match, and no step, the late
\* weight-renormalization included, changes the hash of a realization.
C11_IdentityByPaths ==
    [][/\ \A o1, o2 \in FullRlzs(rlz_obj') :
            /\ __eq__(rlz_obj'[o1], rlz_obj'[o2])
                 <=> (uid(rlz_obj'[o1]) = uid(rlz_obj'[o2]))
            /\ (__hash__(rlz_obj'[o1]) = __hash__(rlz_obj'[o2]))
                 <=> (uid(rlz_obj'[o1]) = uid(rlz_obj'[o2]))
       /\ \A o \in FullRlzs(rlz_obj) :
            __hash__(rlz_obj'[o]) = __hash__(rlz_obj[o])]_vars

(***************************************************************************)
(* The index after the build.                                              *)
(***************************************************************************)
\* C12: once get_rlzs_assoc has built the index, no read operation (a lookup, combine,
\* combine_curves, get_col_ids, with keys or realizations of the index or
\* not) changes the key set of the index, its length, the realizations or
\* the collection ids per realization.
C12_ReadOnlyAfterBuild ==
    [][(pc = "done" /\ ~IsDoctest) =>
         /\ DOMAIN rlzs_assoc' = DOMAIN rlzs_assoc
         /\ Cardinality(DOMAIN rlzs_assoc') = Cardinality(DOMAIN rlzs_assoc)
         /\ rlzs_by_smodel' = rlzs_by_smodel
         /\ rlz_obj' = rlz_obj
         /\ col_ids_by_rlz' = col_ids_by_rlz]_vars

(***************************************************************************)
(* Properties of the collection ids.                                       *)
(***************************************************************************)
\* the (branch, group, sample index) positions of the composite model
ColPositions ==
    {p \in (1..Len(source_models)) \X (1..Len(Trts)) \X (0..MaxNumSamples) :
       /\ p[2] <= Len(source_models[p[1]].trt_models)
       /\ p[3] < source_models[p[1]].samples}

\* the (group id, sample index) pair at a position
PairAt(p) ==
    [trt_id |-> source_models[p[1]].trt_models[p[2]].id, sample |-> p[3]]

\* (branch, group, sample index) order
PosLess(p, q) ==
    \/ p[1] < q[1]
    \/ p[1] = q[1] /\ p[2] < q[2]
    \/ p[1] = q[1] /\ p[2] = q[2] /\ p[3] < q[3]

\* C13: the collection ids are 0, 1, 2, ... given in one pass over (branch,
\* group, sample index) in that order: every pair has exactly one id, no id
\* has two pairs, cols[c] is the pair that received c, and
\* col_ids_by_trt_id[g] holds exactly branch.samples ids. Stated of the
\* CompositionInfo of every composite model whose build has ended.
C13_ColIdsSinglePass ==
    pc # "build" =>
      LET ci == CompositionInfo(source_models)
          ids == [p \in ColPositions |->
                    CHOOSE c \in 0..(Len(ci.cols) - 1) : ci.cols[c + 1] = PairAt(p)]
          IdOf(p) == ids[p]
      IN  /\ Len(ci.cols) = Cardinality(ColPositions)
          /\ ci.col_id = Len(ci.cols)
          /\ \A p \in ColPositions :
               Cardinality({c \in 1..Len(ci.cols) : ci.cols[c] = PairAt(p)}) = 1
          /\ \A p, q \in ColPositions : PosLess(p, q) => IdOf(p) < IdOf(q)
          /\ \A p \in ColPositions :
               /\ PairAt(p).trt_id \in DOMAIN ci.col_ids_by_trt_id
               /\ Len(ci.col_ids_by_trt_id[PairAt(p).trt_id])
                    = source_models[p[1]].samples
               /\ ci.col_ids_by_trt_id[PairAt(p).trt_id][p[3] + 1] = IdOf(p)
          /\ DOMAIN ci.col_ids_by_trt_id = {PairAt(p).trt_id : p \in ColPositions}
          /\ ci.cols = cols(source_models)
          /\ \A g \in DOMAIN ci.col_ids_by_trt_id :
               ci.col_ids_by_trt_id[g] = col_ids_by_trt_id(source_models, g)

\* C13 witness: two branches, the first with two groups sampled twice, and
\* a built index whose realizations were tagged with the collection ids.
C13_Witness ==
    /\ BuildDone /\ col_ids_by_rlz # << >>
    /\ Len(source_models) = 2
    /\ source_models[1].samples = 2
    /\ Len(source_models[1].trt_models) = 2
    /\ CompositionInfo(source_models).col_id = Cardinality(ColPositions)

(***************************************************************************)
(* Failures of the build.                                                  *)
(***************************************************************************)
\* the loop is over, without sampling, and the realizations have weights
\* that sum to zero
ZeroTotalWeight ==
    /\ LoopDone /\ num_samples = 0
    /\ realizations # << >>
    /\ RSum(Weights(realizations)) = RZero

BuildEnded == pc \in {"done", "failed"}

\* the group ids of a source model
GroupIds(s) ==
    {source_models[s].trt_models[t].id :
       t \in 1..Len(source_models[s].trt_models)}

\* C15: a branch that produces no realizations is skipped: its realization
\* list is empty, it adds no key, and the build does not fail for it while
\* another branch produces realizations; a build in which no branch
\* produces a realization fails and returns no index.
C15_SkippedBranches ==
    BuildEnded =>
      /\ \A s \in 1..Len(source_models) :
           Skipped(s) =>
             /\ \A key \in DOMAIN rlzs_assoc : key[1] \notin GroupIds(s)
             /\ (num_samples = 0 /\ realizations # << >>
                 /\ RSum(Weights(realizations)) # RZero) => pc = "done"
      /\ realizations = << >> => pc = "failed"

(***************************************************************************)
(* Properties of the Weighted Task Partitioner.                            *)
(***************************************************************************)
\* the items were split
Split == mr_pc # "idle"

\* the places (block, position) of an item in the blocks
PlacesOf(item) ==
    {bk \in (1..Len(blocks)) \X (1..MaxItems + 1) :
       bk[2] <= Len(blocks[bk[1]]) /\ blocks[bk[1]][bk[2]] = item}

\* the largest weight of an item (0 for no item)
MaxItemWeight(items) ==
    IF items = << >> THEN 0
    ELSE CHOOSE w \in {items[k].weight : k \in 1..Len(items)} :
           \A k \in 1..Len(items) : items[k].weight <= w

\* C18: the blocks hold every input item exactly once: no item is lost, no
\* item is in two blocks or twice in one, the blocks hold nothing else, and
\* an empty input yields no blocks.
C18_BlocksPartitionInput ==
    Split =>
      /\ \A k \in 1..Len(sources) : Cardinality(PlacesOf(sources[k])) = 1
      /\ \A b \in 1..Len(blocks) :
           SeqToSet(blocks[b]) \subseteq SeqToSet(sources)
      /\ SumTo([b \in 1..Len(blocks) |-> Len(blocks[b])], Len(blocks))
           = Len(sources)
      /\ sources = << >> => blocks = << >>

\* C18 witness: three items split in at least two blocks.
C18_Witness ==
    /\ Split /\ concurrent_tasks > 0
    /\ Len(sources) = 3 /\ Len(blocks) >= 2

\* C19: for a target concurrency T > 0 and items of total weight W, no
\* block weighs more than max(the largest item weight, W / T).
C19_BlockWeightBound ==
    (Split /\ concurrent_tasks > 0) =>
      \A b \in 1..Len(blocks) :
        \/ TotalWeight(blocks[b]) <= MaxItemWeight(sources)
        \/ TotalWeight(blocks[b]) * concurrent_tasks <= TotalWeight(sources)

\* C19 witness: a block of one item heavier than W / T beside a block of
\* two items.
C19_Witness ==
    /\ Split /\ concurrent_tasks > 0
    /\ \E b \in 1..Len(blocks) :
         /\ Len(blocks[b]) = 1
         /\ TotalWeight(blocks[b]) * concurrent_tasks > TotalWeight(sources)
    /\ \E b \in 1..Len(blocks) : Len(blocks[b]) = 2

\* C20: for a target concurrency T > 0 there are never more than T blocks;
\* for T <= 0, or items all of weight 0, a non-empty input yields a single
\* block of everything.
C20_AtMostTBlocks ==
    Split =>
      /\ concurrent_tasks > 0 => Len(blocks) <= concurrent_tasks
      /\ (sources # << >>
          /\ (concurrent_tasks <= 0 \/ TotalWeight(sources) = 0)) =>
           blocks = <<sources>>

(***************************************************************************)
(* Properties of the map-reduce of the classical calculator.               *)
(***************************************************************************)
\* the curves of a key after folding the partial results of the blocks
\* 1..b, in the order of the blocks, from the zero curves
RECURSIVE FoldInOrder(_, _)
FoldInOrder(key, b) ==
    IF b = 0 THEN RZero
    ELSE LET val == classical(blocks[b], b).curves
         IN  IF key \in DOMAIN val
             THEN agg_curves(FoldInOrder(key, b - 1), val[key])
             ELSE FoldInOrder(key, b - 1)

\* C16: whatever the order in which the tasks complete, the reduction does
\* not fail and the accumulator it returns is the same: every key of the
\* index holds the agg_curves fold of the partial curves of its blocks, and
\* the partial result of every block was folded exactly once.
C16_ReduceOrderIndependent ==
    /\ mr_pc # "failed"
    /\ mr_pc = "returned" =>
         /\ DOMAIN mr_acc.curves = DOMAIN rlzs_assoc
         /\ \A key \in DOMAIN rlzs_assoc :
              mr_acc.curves[key] = FoldInOrder(key, Len(blocks))
         /\ Len(mr_acc.calc_times) = Len(blocks)
         /\ SeqToSet(mr_acc.calc_times) = 1..Len(blocks)

\* C16 witness: two blocks of the same group, the second completed first.
C16_Witness ==
    /\ mr_pc = "returned"
    /\ Len(blocks) >= 2
    /\ blocks[1][1].key = blocks[2][1].key
    /\ mr_acc.calc_times[1] = 2
    /\ \E key \in DOMAIN rlzs_assoc : mr_acc.curves[key] # RZero

(***************************************************************************)
(* Properties of the tiling calculator.                                    *)
(***************************************************************************)
\* the tile tasks have been dispatched and not all of them are done
TilesRunning == tl_pc = "reduce"

\* C17: the index is built once, before the dispatch, and is read-only
\* afterwards: while tile tasks are running no step replaces the index the
\* calculator uses or changes its content, the ground-motion trees or the
\* gsim lists of the groups.
C17_BuiltOnceReadOnly ==
    [][TilesRunning =>
         /\ calc_assoc' = calc_assoc
         /\ UNCHANGED <<rlz_obj, rlzs_assoc, rlzs_by_smodel, col_ids_by_rlz,
                        gsim_lt, source_models>>]_vars

(***************************************************************************)
(* Properties of the realizations of a built index.                        *)
(***************************************************************************)
\* C27: in the index get_rlzs_assoc returns, the realization at the position
\* i of the flat list assoc.realizations has the ordinal i (positions from
\* 0), also when branches were skipped and whatever the order of the source
\* models relative to their ordinals.
C27_OrdinalsArePositions ==
    BuildDone =>
      \A i \in 1..Len(realizations) : rlz_obj[realizations[i]].ordinal = i - 1

\* the number of times the realization r is in the list of the key
TimesListed(key, r) ==
    Cardinality({k \in 1..Len(rlzs_assoc[key]) : rlzs_assoc[key][k] = r})

\* the keys of the group of id g that list the realization r
KeysListing(g, r) ==
    {key \in DOMAIN rlzs_assoc : key[1] = g /\ TimesListed(key, r) > 0}

\* C28: in a built index every realization r of a branch is listed, for
\* every effective group g of the branch, under exactly one key (g.id, gsim)
\* and once in its list, and under no key of a group of another branch.
C28_OneKeyPerEffectiveGroup ==
    BuildDone =>
      \A s \in 1..Len(source_models) :
        \A r \in SeqToSet(rlzs_by_smodel[source_models[s].ordinal + 1]) :
          /\ \A t \in 1..Len(source_models[s].trt_models) :
               LET g == source_models[s].trt_models[t]
               IN  get_weight(g) # 0 =>
                     /\ Cardinality(KeysListing(g.id, r)) = 1
                     /\ \A key \in KeysListing(g.id, r) : TimesListed(key, r) = 1
          /\ \A s2 \in (1..Len(source_models)) \ {s} :
               \A t \in 1..Len(source_models[s2].trt_models) :
                 KeysListing(source_models[s2].trt_models[t].id, r) = {}

\* C28 witness: a built index of two branches, the first with two effective
\* groups and four realizations, the second with realizations of its own.
C28_Witness ==
    /\ BuildDone
    /\ Len(source_models) = 2
    /\ Len(rlzs_by_smodel[1]) = 4
    /\ Len(rlzs_by_smodel[2]) >= 2
    /\ \A t \in 1..2 : get_weight(source_models[1].trt_models[t]) # 0

(***************************************************************************)
(* Properties of the tiles.                                                *)
(***************************************************************************)
\* the site indices a tile writes: position .. position + len(tile) - 1
TileRange(t) ==
    tiles[t].position..(tiles[t].position + Len(tiles[t].sites) - 1)

\* the tiles whose range holds the site index i
TilesOf(i) == {t \in 1..Len(tiles) : i \in TileRange(t)}

\* C29: the index ranges of the tiles are pairwise disjoint and cover
\* 0 .. N - 1 exactly, and the accumulator the reduction returns holds, for
\* every key and every site index, the curves computed by the one tile of
\* that index for the site at that index, whatever the order in which the
\* tiles completed.
C29_TilesCoverSitesOnce ==
    /\ tl_pc # "idle" =>
         /\ \A i \in 0..(Len(sitecol) - 1) : Cardinality(TilesOf(i)) = 1
         /\ \A t \in 1..Len(tiles) : TileRange(t) \subseteq 0..(Len(sitecol) - 1)
         /\ \A t \in 1..Len(tiles) : \A k \in 1..Len(tiles[t].sites) :
              tiles[t].sites[k] = sitecol[tiles[t].position + k]
    /\ tl_pc = "returned" =>
         \A key \in DOMAIN tl_acc.curves :
           /\ DOMAIN tl_acc.curves[key] = 0..(Len(sitecol) - 1)
           /\ \A i \in 0..(Len(sitecol) - 1) :
                tl_acc.curves[key][i]
                  = SiteCurve(execute.acc.curves[key], sitecol[i + 1])

\* C29 witness: two tiles were reduced and the curves of a key are not zero.
C29_Witness ==
    /\ tl_pc = "returned"
    /\ Len(tiles) >= 2
    /\ \E key \in DOMAIN tl_acc.curves : tl_acc.curves[key][1][1] # 0

(***************************************************************************)
(* Properties of the groups.                                               *)
(***************************************************************************)
SameTrt(self, srcs) ==
    \A k \in 1..Len(srcs) : srcs[k].tectonic_region_type = self.trt
MinMag(srcs) ==
    CHOOSE v \in {srcs[k].mags[1] : k \in 1..Len(srcs)} :
      \A k \in 1..Len(srcs) : v <= srcs[k].mags[1]
MaxMag(srcs) ==
    CHOOSE v \in {srcs[k].mags[2] : k \in 1..Len(srcs)} :
      \A k \in 1..Len(srcs) : v >= srcs[k].mags[2]

\* C30: the constructor of a group given n sources of its region type makes
\* n updates, does not fail, and ends holding exactly the n sources given,
\* with min_mag and max_mag the extremes of their magnitude ranges.
C30_ConstructorHoldsGiven ==
    (call.no = 0 /\ SameTrt(group, ctor.given)) =>
      /\ ctor.it <= Len(ctor.given)
      /\ ctor.stage # "failed"
      /\ ctor.stage = "ready" =>
           /\ group.sources = ctor.given
           /\ ctor.given # << >> =>
                /\ group.min_mag = MinMag(ctor.given)
                /\ group.max_mag = MaxMag(ctor.given)

\* C25: every source held by a constructed group reports the trt of the
\* group, and an update with a source of another region type fails its
\* assertion and leaves sources, min_mag and max_mag as they were.
C25_MembersReportGroupTrt ==
    [][/\ ctor'.stage = "ready" => SameTrt(group', group'.sources)
       /\ (call'.no # call.no /\ call'.src.tectonic_region_type # group.trt) =>
            /\ error' = "AssertionError"
            /\ group' = group]_vars

C25_Witness ==
    /\ ctor.stage = "ready"
    /\ call.no = 2
    /\ error = "AssertionError"
    /\ Len(group.sources) = 1
    /\ call.src.tectonic_region_type # group.trt

(***************************************************************************)
(* Properties of the loading.                                              *)
(***************************************************************************)
\* the groups of the source models parsed so far and of the one in parsing
LoadedGroups ==
    UNION {SeqToSet(parser.trt_models[f]) : f \in 1..Len(parser.trt_models)}
DictGroups ==
    {parser.locals.source_stats_dict[t] :
       t \in DOMAIN parser.locals.source_stats_dict}
KnownGroups == LoadedGroups \cup DictGroups
Incomparable(a, b) == ~__lt__(a, b) /\ ~__lt__(b, a)

\* C24: __lt__ is a strict weak ordering of the groups (irreflexive,
\* asymmetric, transitive, with a transitive incomparability), two groups
\* that differ in their number of sources or in their region type are
\* ordered, and sorted() returns the same list of groups for every order in
\* which the dictionary may yield them.
C24_GroupOrderingDeterministic ==
    /\ \A a, b, c \in KnownGroups :
         /\ ~__lt__(a, a)
         /\ __lt__(a, b) => ~__lt__(b, a)
         /\ (__lt__(a, b) /\ __lt__(b, c)) => __lt__(a, c)
         /\ (Incomparable(a, b) /\ Incomparable(b, c)) => Incomparable(a, c)
         /\ (Len(a.sources) # Len(b.sources) \/ a.trt # b.trt) =>
              (__lt__(a, b) \/ __lt__(b, a))
    /\ parser.stage = "returned" =>
         \A order \in ValueOrders(parser.locals.source_stats_dict) :
           sorted([k \in DOMAIN order |->
                     parser.locals.source_stats_dict[order[k]]])
             = parser.trt_models[Len(parser.trt_models)]

\* a group with two sources returned by a call, then two groups with one
\* source each, yielded by the dictionary in the other order
C24_Witness ==
    /\ parser.stage = "returned"
    /\ Len(parser.trt_models) = 2
    /\ \E g \in SeqToSet(parser.trt_models[1]) : Len(g.sources) = 2
    /\ Len(parser.trt_models[2]) = 2
    /\ \A k \in 1..2 : Len(parser.trt_models[2][k].sources) = 1
    /\ parser.values # parser.trt_models[2]

\* the source ids held by the groups of the source models parsed
HeldIds(f) ==
    Flatten([k \in 1..Len(parser.trt_models[f]) |->
               [j \in 1..Len(parser.trt_models[f][k].sources) |->
                  parser.trt_models[f][k].sources[j].source_id]])
AllHeldIds == Flatten([f \in 1..Len(parser.trt_models) |-> HeldIds(f)])

\* C26: no loaded composite model holds two sources with the same id.
C26_NoDuplicatedIdLoaded ==
    parser.stage = "loaded" =>
      \A j, k \in 1..Len(AllHeldIds) : AllHeldIds[j] = AllHeldIds[k] => j = k

(***************************************************************************)
(* Properties of the source processors.                                    *)
(***************************************************************************)
\* the sources of a group before the processing
GroupSources(id) == {src \in SeqToSet(sp.sources) : src.trt_model_id = id}

\* C21: after SourceFilter.process with a site collection the sources of
\* every group are the sources of the group near the sites, each once, by
\* ascending source_id, and nothing is raised, whether or not groups end
\* up empty.
C21_FilterKeepsNearSources ==
    (sp.kind = "SourceFilter" /\ sp.stage = "updated") =>
      /\ error = ""
      /\ DOMAIN sp.trt_model_sources = CsmGroupIds
      /\ \A id \in CsmGroupIds :
           LET kept == sp.trt_model_sources[id]
           IN  /\ SeqToSet(kept) = {src \in GroupSources(id) : src.near}
               /\ \A j, k \in 1..Len(kept) :
                    j < k => kept[j].source_id < kept[k].source_id

\* the only source of the first group is far from the sites and the group
\* ends up empty, the source of the second group is kept
C21_Witness ==
    /\ sp.kind = "SourceFilter"
    /\ sp.stage = "updated"
    /\ Len(sp.sources) = 2
    /\ sp.sources[1].trt_model_id = 0
    /\ ~sp.sources[1].near
    /\ sp.trt_model_sources[0] = << >>
    /\ Len(sp.trt_model_sources[1]) = 1

\* C23: SourceFilterSplitter.process leaves in every group the sub-sources,
\* in the order and with the weights, that the processing of all the
\* sources one after the other in their order leaves, whatever the classes
\* of the sources and the order in which the tasks of the slow ones end.
C23_SplitterAsSequential ==
    (sp.kind = "SourceFilterSplitter" /\ sp.stage = "updated") =>
      sp.trt_model_sources =
        SourceFilter_update(SplitFold(sp, Len(sp.sources), 1..Len(sp.sources)))

\* two slow sources of one group whose tasks ended in the other order, and
\* a slow source before a fast one of its group
C23_Witness ==
    /\ sp.kind = "SourceFilterSplitter"
    /\ sp.stage = "updated"
    /\ Len(sp.sources) = 2
    /\ sp.sources[1].trt_model_id = sp.sources[2].trt_model_id
    /\ Len(sp.trt_model_sources[sp.sources[1].trt_model_id]) = 4
    /\ sp.sources_by_trt # SplitFold(sp, Len(sp.sources), 1..Len(sp.sources))

\* C22: a get_rlzs_assoc() made after the processing has no key for a
\* group left without sources, and the region type of such a group is not
\* in the ground-motion tree of its source model.
C22_EmptiedGroupNotEffective ==
    (sp.stage = "updated" /\ BuildDone) =>
      \A s \in 1..Len(source_models) :
        \A t \in 1..Len(source_models[s].trt_models) :
          LET g == source_models[s].trt_models[t]
          IN  sp.trt_model_sources[g.id] = << >> =>
                /\ \A key \in DOMAIN rlzs_assoc : key[1] # g.id
                /\ g.trt \notin gsim_lt[s].tectonic_region_types

====
